---- MODULE Spec2Model ----
(***************************************************************************)
(* Metrics aggregation of the CTO dashboard.                               *)
(*                                                                         *)
(* backend/metrics_service.py: MetricsAggregator.get_all_metrics and the   *)
(* four adapters it drives (GitHubMetrics, JiraMetrics, AWSMetrics,        *)
(* RailwayMetrics), as called by the web endpoint of backend/main.py, which *)
(* constructs a MetricsAggregator per request.                             *)
(*                                                                         *)
(* Python values are modelled as follows.  A dict is a function whose      *)
(* DOMAIN is its set of keys.  A value whose Python type matters (None, an *)
(* int where a str is expected, a non-list where a list is expected) is a  *)
(* record [type, v] or [type, items].  An f-string is the sequence of its  *)
(* parts, so that "the message contains 404" is decidable.                 *)
(***************************************************************************)
EXTENDS Integers, Sequences, FiniteSets, TLC

\* -------------------------------------------------------------- bounds
\* longest repos list of an assignment
MaxRepos == 2
\* number of request slots (aggregations that can be in progress at once)
NumRequests == 2

Requests == 1..NumRequests
Services == {"github", "jira", "aws", "railway"}
RepoNames == {"r1", "r2"}

\* ------------------------------------------------------- Python values
PyNone == [type |-> "NoneType", v |-> ""]
PyStr(s) == [type |-> "str", v |-> s]
PyInt(s) == [type |-> "int", v |-> s]
PyList(q) == [type |-> "list", items |-> q]
PyNull == [type |-> "NoneType", items |-> <<>>]

\* bool(x) of a str-or-None value
Truthy(x) == x.type = "str" /\ x.v # ""

\* d.get(k, dflt)
DictGet(d, k, dflt) == IF k \in DOMAIN d THEN d[k] ELSE dflt

\* "error" in v
IsError(v) == "error" \in DOMAIN v

\* the empty dict
EmptyDict == [k \in {} |-> TRUE]

\* d[k] = v
DictSet(d, k, v) == [x \in DOMAIN d \cup {k} |-> IF x = k THEN v ELSE d[x]]

\* str(status_code) inside an f-string
StatusText(s) == CASE s = 200 -> "200" [] s = 404 -> "404" [] s = 500 -> "500" [] OTHER -> "?"

\* part in message: the f-string holds the part
Contains(msg, part) == \E i \in 1..Len(msg) : msg[i] = part

\* sequences over S of length at most n
SeqUpTo(S, n) == UNION {[1..k -> S] : k \in 0..n}

\* ------------------------------------------------- assignment records
\* metrics_config.github entries: disabled, or enabled with an org and a
\* repos value (a list of repository names, or JSON null)
ReposValues == {PyList(q) : q \in SeqUpTo(RepoNames, MaxRepos)} \cup {PyNull}
GithubConfigs ==
    {[enabled |-> FALSE, org |-> "acme", repos |-> PyList(<<"r1">>)]}
    \cup {[enabled |-> TRUE, org |-> "acme", repos |-> rp] : rp \in ReposValues}
    \cup {[enabled |-> TRUE, org |-> "", repos |-> PyList(<<"r1">>)]}

JiraConfigs ==
    {[enabled |-> FALSE, project_key |-> "PK"]}
    \cup {[enabled |-> TRUE, project_key |-> k] : k \in {"", "PK"}}

AwsConfigs == {[enabled |-> e] : e \in BOOLEAN}

\* metrics_config.railway entries; project_id is a string, or a JSON number
RailwayConfigs ==
    {[enabled |-> FALSE, project_id |-> PyStr("pA")]}
    \cup {[enabled |-> TRUE, project_id |-> p] : p \in {PyStr("pA"), PyInt("123")}}

\* a service with no entry in metrics_config
Absent == [absent |-> TRUE]

MkMetricsConfig(g, j, a, r) ==
    LET pick == [s \in Services |->
                   CASE s = "github" -> g [] s = "jira" -> j [] s = "aws" -> a [] OTHER -> r]
    IN [s \in {x \in Services : pick[x] # Absent} |-> pick[s]]

MetricsConfigs ==
    {MkMetricsConfig(g, j, a, r) :
        g \in GithubConfigs \cup {Absent}, j \in JiraConfigs \cup {Absent},
        a \in AwsConfigs \cup {Absent}, r \in RailwayConfigs \cup {Absent}}

\* the assignment documents of the store: with a metrics_config, without one,
\* and without an id
Assignments ==
    {[id |-> "A", metrics_config |-> mc] : mc \in MetricsConfigs}
    \cup {[id |-> "A"], [name |-> "no id"]}

\* ------------------------------------------------ process environment
\* the variables load_dotenv may or may not have set when the process starts
OptionalVars == {"GITHUB_TOKEN", "JIRA_TOKEN", "AWS_SECRET_ACCESS_KEY", "RAILWAY_TOKEN"}
AlwaysVars == {"JIRA_URL", "JIRA_EMAIL", "AWS_ACCESS_KEY_ID"}
Environs == {[k \in AlwaysVars \cup S |-> "set"] : S \in SUBSET OptionalVars}

\* os.getenv(name)
getenv(env, name) == IF name \in DOMAIN env THEN PyStr(env[name]) ELSE PyNone

\* os.getenv(name, default)
getenv_default(env, name, dflt) == IF name \in DOMAIN env THEN PyStr(env[name]) ELSE PyStr(dflt)

VARIABLES
    environ,      \* os.environ of the process
    now,          \* the clock datetime.now() reads
    pc,           \* pc[t]: where request t is in get_all_metrics
    asg,          \* asg[t]: assignment_config of request t
    agg,          \* agg[t]: the fields of the MetricsAggregator request t constructed
    metrics,      \* metrics[t]: the dict get_all_metrics builds and returns
    github_data,  \* github_data[t]: the list the GitHub loop appends to
    calls,        \* calls[t]: the outbound requests issued for request t, in order
    prior,        \* prior[t]: the requests that had returned when t was constructed
    met,          \* met[t]: what the outbound requests of request t met, per service
    unit,         \* the last call of an adapter or analyzer function on its own
    cancelled,    \* cancelled[t]: the requests issued for t when its caller went away, or -1
    store,        \* the files of the assignments directory and of its archived folder
    conversation_history  \* the conversations the two chatbot services keep in memory

vars == <<environ, now, pc, asg, agg, metrics, github_data, calls, prior, met, unit, cancelled,
          store, conversation_history>>

\* the state of the aggregations
aggregation == <<environ, now, pc, asg, agg, metrics, github_data, calls, prior, met>>

\* what the steps of an aggregation and the calls of single functions leave
\* alone, and its state when the process starts
frame == <<cancelled, store, conversation_history>>
FrameInit ==
    /\ cancelled = [t \in Requests |-> -1]
    /\ store = [active |-> EmptyDict, archived |-> EmptyDict]
    /\ conversation_history = [backend |-> <<>>, services |-> EmptyDict]

\* no function was called on its own
NoUnit == [fn |-> "none"]

\* --------------------------------------------------- external services
\* what an outbound request meets: an HTTP response, a transport error the
\* client library raises, or a service that never answers
Http(s) == [kind |-> "http", status |-> s]
Raised == [kind |-> "exception", status |-> 0]
Silent == [kind |-> "noresponse", status |-> 0]
NotCalled == [kind |-> "notcalled", status |-> 0]

\* a request with a timeout to a service that never answers raises; one
\* without a timeout never returns
Effective(resp, has_timeout) ==
    IF resp.kind = "noresponse" /\ has_timeout THEN Raised ELSE resp
Blocks(resp, has_timeout) == resp.kind = "noresponse" /\ ~has_timeout

\* a logged outbound request, issued when the clock read at
Call(svc, op, target, at) == [svc |-> svc, op |-> op, target |-> target, at |-> at]

\* ------------------------------------------------------- GitHubMetrics
\* requests.get(repo_url, headers=headers): no timeout argument
GithubHasTimeout == FALSE

\* the JSON bodies a 200 carries
RepoJson == [open_issues_count |-> 4, stargazers_count |-> 7,
             language |-> "Python", updated_at |-> "2024-08-01"]
CommitsJson == <<"c1", "c2", "c3">>
PullsJson == <<"p1", "p2">>

\* the responses one get_repo_metrics call can meet
GithubOutcomes ==
    {[meta |-> Http(200), commits |-> Http(200), prs |-> Http(200)],
     [meta |-> Http(200), commits |-> Http(500), prs |-> Http(200)],
     [meta |-> Http(200), commits |-> Http(200), prs |-> Http(500)]}
    \cup {[meta |-> m, commits |-> NotCalled, prs |-> NotCalled] : m \in {Http(404), Raised, Silent}}

\* current_org = org or self.org
CurrentOrg(self, org) == IF org # "" THEN org ELSE self.github_org.v

\* whether get_repo_metrics gets as far as its try block
GithubConfigured(self, org) == Truthy(self.github_token) /\ CurrentOrg(self, org) # ""

GithubErrorRecord(self, repo, org, status) ==
    [error |-> <<"GitHub API returned ", StatusText(status), ": ", "body">>,
     debug_url |-> <<"https://api.github.com", "/repos/", CurrentOrg(self, org), "/", repo>>,
     debug_token_length |-> 3,
     debug_org |-> CurrentOrg(self, org),
     debug_repo |-> repo]

\* GitHubMetrics.get_repo_metrics(repo, org), meeting the responses out
get_repo_metrics(self, repo, org, out) ==
    IF ~Truthy(self.github_token) THEN [error |-> <<"GitHub token not configured">>]
    ELSE IF CurrentOrg(self, org) = "" THEN [error |-> <<"GitHub organization not provided">>]
    ELSE LET meta == Effective(out.meta, GithubHasTimeout) IN
         IF meta.kind = "exception" THEN [error |-> <<"GitHub API error: ", "connection failed">>]
         ELSE IF meta.status # 200 THEN GithubErrorRecord(self, repo, org, meta.status)
         ELSE [repo_name |-> repo,
               commits_last_30_days |-> IF out.commits.status = 200 THEN Len(CommitsJson) ELSE 0,
               total_prs |-> IF out.prs.status = 200 THEN Len(PullsJson) ELSE 0,
               open_issues |-> DictGet(RepoJson, "open_issues_count", 0),
               stars |-> DictGet(RepoJson, "stargazers_count", 0),
               language |-> DictGet(RepoJson, "language", "Unknown"),
               last_updated |-> DictGet(RepoJson, "updated_at", "")]

\* the requests that call issues
GithubCalls(self, repo, org, out, at) ==
    IF ~GithubConfigured(self, org) THEN <<>>
    ELSE IF out.meta.kind = "http" /\ out.meta.status = 200
         THEN <<Call("github", "repo", repo, at), Call("github", "commits", repo, at),
                Call("github", "pulls", repo, at)>>
         ELSE <<Call("github", "repo", repo, at)>>

\* what a call that issued no request met
GithubNotMet == [meta |-> NotCalled, commits |-> NotCalled, prs |-> NotCalled]
GithubMet(self, org, out) == IF GithubConfigured(self, org) THEN out ELSE GithubNotMet

\* --------------------------------------------------------- JiraMetrics
\* requests.get(project_url, auth=auth, headers=headers): no timeout argument
JiraHasTimeout == FALSE

\* the issues of a 200 search response: TRUE is an issue with a resolutiondate
JiraIssues == <<TRUE, TRUE, FALSE, TRUE>>
ProjectJson == [name |-> "Project PK"]

JiraOutcomes ==
    {[project |-> Http(p), search |-> Http(200)] : p \in {200, 404}}
    \cup {[project |-> Http(200), search |-> x] : x \in {Http(500), Raised, Silent}}

\* a / b rounded to the nearest integer, ties to even
RoundDiv(a, b) ==
    LET q == a \div b
        r == a % b
    IN IF 2 * r > b \/ (2 * r = b /\ q % 2 = 1) THEN q + 1 ELSE q

\* a faulty variant: the rate is cut off after the first decimal
ResolutionRateTruncated(resolved, total) == IF total > 0 THEN (resolved * 1000) \div total ELSE 0

\* round(resolved / total * 100, 1) if total > 0 else 0, in tenths of a percent
ResolutionRate(resolved, total) == IF total > 0 THEN RoundDiv(resolved * 1000, total) ELSE 0

JiraConfigured(self, project_key) ==
    /\ Truthy(self.jira_url) /\ Truthy(self.jira_email) /\ Truthy(self.jira_token)
    /\ project_key # ""

\* JiraMetrics.get_project_metrics(project_key), meeting the responses out
get_project_metrics(self, project_key, out) ==
    IF ~(Truthy(self.jira_url) /\ Truthy(self.jira_email) /\ Truthy(self.jira_token))
    THEN [error |-> <<"Jira credentials not configured">>]
    ELSE IF project_key = "" THEN [error |-> <<"Jira project key not provided">>]
    ELSE LET search == Effective(out.search, JiraHasTimeout)
             total == Len(JiraIssues)
             resolved == Cardinality({i \in 1..Len(JiraIssues) : JiraIssues[i]})
         IN IF search.kind = "exception" THEN [error |-> <<"Jira API error: ", "connection failed">>]
            ELSE IF search.status # 200
                 THEN [error |-> <<"Jira API returned ", StatusText(search.status), ": ", "body">>]
            ELSE [project_key |-> project_key,
                  total_issues_last_30_days |-> total,
                  resolved_issues_last_30_days |-> resolved,
                  resolution_rate |-> ResolutionRate(resolved, total),
                  project_name |-> IF out.project.status = 200
                                   THEN DictGet(ProjectJson, "name", "Unknown") ELSE "Unknown"]

\* a faulty variant: a search that did not answer 200 is sent a second time
JiraCallsRetry(self, project_key, out, at) ==
    IF ~JiraConfigured(self, project_key) THEN <<>>
    ELSE IF out.search.kind = "http" /\ out.search.status = 200
         THEN <<Call("jira", "project", project_key, at), Call("jira", "search", project_key, at)>>
         ELSE <<Call("jira", "project", project_key, at), Call("jira", "search", project_key, at),
                Call("jira", "search", project_key, at)>>

JiraCalls(self, project_key, out, at) ==
    IF ~JiraConfigured(self, project_key) THEN <<>>
    ELSE <<Call("jira", "project", project_key, at), Call("jira", "search", project_key, at)>>

JiraMet(self, project_key, out) == IF JiraConfigured(self, project_key) THEN <<out>> ELSE <<>>

\* --------------------------------------------------------- cost analysis
\* the daily amounts of a Cost Explorer answer, in whole currency units; a
\* credit makes a day's amount negative
Amounts == {-5, 0, 5, 10}
\* longest run of days with the same amount
MaxRun == 8

\* n days at amount v
Run(n, v) == [i \in 1..n |-> v]

\* daily series, oldest day first: a run of days followed by a second run
DailySeries == {Run(n1, v1) \o Run(n2, v2) : n1, n2 \in 0..MaxRun, v1, v2 \in Amounts}

Max(a, b) == IF a > b THEN a ELSE b

\* sum(q)
RECURSIVE SumSeq(_)
SumSeq(q) == IF q = <<>> THEN 0 ELSE q[1] + SumSeq(Tail(q))

\* q[-n:]
LastN(q, n) == SubSeq(q, Max(1, Len(q) - n + 1), Len(q))

\* q[-14:-7]
Previous7(q) == SubSeq(q, Max(1, Len(q) - 13), Len(q) - 7)

\* [c for c in q if c > 0]
Positive(q) == SelectSeq(q, LAMBDA c : c > 0)

\* a faulty variant: equal sums count as an increase
cost_trend_ties_increasing(daily_costs) ==
    LET recent_7_days == SumSeq(Positive(LastN(daily_costs, 7)))
        previous_7_days == SumSeq(Positive(Previous7(daily_costs)))
    IN [recent_7_days_cost |-> recent_7_days,
        previous_7_days_cost |-> previous_7_days,
        weekly_trend |-> IF recent_7_days >= previous_7_days THEN "increasing" ELSE "decreasing"]

\* AWSMetrics._get_cost_analysis, lines 237-240 (the same lines are in
\* integrated_dashboard.py, 210-213)
cost_trend(daily_costs) ==
    LET recent_7_days == SumSeq(Positive(LastN(daily_costs, 7)))
        previous_7_days == SumSeq(Positive(Previous7(daily_costs)))
    IN [recent_7_days_cost |-> recent_7_days,
        previous_7_days_cost |-> previous_7_days,
        weekly_trend |-> IF recent_7_days > previous_7_days THEN "increasing" ELSE "decreasing"]

\* EmbeddedAWSMetrics.get_real_cost_metrics, lines 81-91;
\* x > y * 1.1 is 10 x > 11 y and x < y * 0.9 is 10 x < 9 y
embedded_cost_trend(daily_costs) ==
    LET recent_7_days == SumSeq(LastN(daily_costs, 7))
        previous_7_days == IF Len(daily_costs) >= 14 THEN SumSeq(Previous7(daily_costs)) ELSE 0
    IN [recent_7_days_cost |-> recent_7_days,
        previous_7_days_cost |-> previous_7_days,
        weekly_trend |-> IF 10 * recent_7_days > 11 * previous_7_days THEN "increasing"
                         ELSE IF 10 * recent_7_days < 9 * previous_7_days THEN "decreasing"
                         ELSE "stable"]

\* ------------------------------------------------------- recommendations
\* a line of static guidance, and the callout for a service with its share in
\* tenths of a percent
Line(text) == [text |-> text]
Callout(name, share) == [callout |-> name, share |-> share]

\* AWSMetrics._get_cost_optimization_recommendations: the headings of its list
get_cost_optimization_recommendations ==
    <<Line("CTO COST OPTIMIZATION PRIORITIES"), Line("IMMEDIATE ACTIONS (0-7 days)"),
      Line("SHORT TERM (1-4 weeks)"), Line("ONGOING MONITORING"),
      Line("RED FLAGS TO INVESTIGATE")>>

\* the static list of EmbeddedAWSMetrics._get_cost_recommendations
EmbeddedStaticLines ==
    <<Line("CTO COST OPTIMIZATION PRIORITIES"), Line("IMMEDIATE ACTIONS (0-7 days)"),
      Line("SHORT TERM (1-4 weeks)"), Line("ONGOING MONITORING")>>

\* max(service_costs.items(), key=lambda x: x[1]): the first entry with the
\* greatest cost; service_costs is the dict as a sequence in insertion order
TopService(service_costs) ==
    LET top == CHOOSE i \in 1..Len(service_costs) :
                 /\ \A j \in 1..Len(service_costs) : service_costs[j].cost <= service_costs[i].cost
                 /\ \A j \in 1..(i - 1) : service_costs[j].cost < service_costs[i].cost
    IN service_costs[top]

\* a value, or the exception a function raised
Value(v) == [value |-> v]
Raise(e) == [raised |-> e]

\* f"{cost/total_cost*100:.1f}", in tenths of a percent
Share(cost, total_cost) ==
    IF total_cost > 0 THEN RoundDiv(cost * 1000, total_cost)
    ELSE 0 - RoundDiv(cost * 1000, 0 - total_cost)

\* EmbeddedAWSMetrics._get_cost_recommendations(total_cost, service_costs);
\* x > total_cost * 0.3 is 10 x > 3 total_cost
get_cost_recommendations(total_cost, service_costs) ==
    IF service_costs = <<>> THEN Value(EmbeddedStaticLines)
    ELSE LET top_service == TopService(service_costs) IN
         IF ~(10 * top_service.cost > 3 * total_cost) THEN Value(EmbeddedStaticLines)
         ELSE IF total_cost = 0 THEN Raise("ZeroDivisionError")
         ELSE Value(EmbeddedStaticLines \o
                    <<Line(""),
                      Callout(top_service.name, Share(top_service.cost, total_cost)),
                      Line("Review usage patterns and optimization opportunities")>>)

\* sorted(service_costs.items(), key=lambda x: x[1], reverse=True)
RECURSIVE SortedByCost(_)
SortedByCost(q) ==
    IF q = <<>> THEN <<>>
    ELSE LET top == TopService(q)
             i == CHOOSE k \in 1..Len(q) : q[k] = top
         IN <<top>> \o SortedByCost(SubSeq(q, 1, i - 1) \o SubSeq(q, i + 1, Len(q)))

\* a faulty variant: the slice keeps every element
FirstNAll(q, n) == q

\* q[:n]
FirstN(q, n) == SubSeq(q, 1, IF Len(q) < n THEN Len(q) ELSE n)

\* ---------------------------------------------------------- AWSMetrics
InventoryKinds == {"lightsail", "ec2", "rds", "route53", "s3"}

\* what the boto3 calls of one report meet: the Cost Explorer queries succeed
\* or raise, and the describe/list calls of the kinds in failed raise
AwsOutcomes ==
    {[ce |-> "fail", failed |-> {}]}
    \cup {[ce |-> "ok", failed |-> F] : F \in {{}, {"ec2"}}}

\* most services in an answer of Cost Explorer
MaxServices == 6

\* the Groups of one result period: n services whose costs are rising,
\* falling, all the same, or in no order
Groups(n, pat) ==
    LET ServiceNames ==
            <<"EC2", "S3", "RDS", "Route53", "Lightsail", "Lambda", "CloudWatch", "SNS",
              "ECS", "SQS">>
        PatternCost(i) ==
            CASE pat = "up" -> 10 * i
              [] pat = "down" -> 10 * (12 - i)
              [] pat = "flat" -> 20
              [] OTHER -> (30 * i) % 110
    IN [i \in 1..n |-> [name |-> ServiceNames[i], cost |-> PatternCost(i)]]

\* the groups of all periods, in order
RECURSIVE Flatten(_)
Flatten(periods) ==
    IF periods = <<>> THEN <<>> ELSE periods[1] \o Flatten(Tail(periods))

\* the positions in groups at which a service is named for the first time,
\* in order: the keys of a dict filled from groups keep this order
FirstSeen(groups) ==
    LET firsts == {i \in 1..Len(groups) : \A j \in 1..(i - 1) : groups[j].name # groups[i].name}
    IN [k \in 1..Cardinality(firsts) |->
           CHOOSE i \in firsts : Cardinality({j \in firsts : j < i}) = k - 1]

\* AWSMetrics._get_cost_analysis, on the answer of Cost Explorer in the
\* outcome out; amounts in whole units, daily_average in hundredths
get_cost_analysis(out) ==
    LET \* the answer met when none is named
        SampleAnswer ==
            [daily |-> Run(7, 5) \o Run(7, 10),
             periods |-> << <<[name |-> "EC2", cost |-> 200], [name |-> "S3", cost |-> 100]>> >>]
        answer == IF "answer" \in DOMAIN out THEN out.answer ELSE SampleAnswer
        daily_costs == answer.daily
        groups == Flatten(answer.periods)
        keys == FirstSeen(groups)
        \* lines 230-235: service_costs[service_name] = cost for every group
        \* in turn, so a service holds the cost of the last group that names
        \* it; the dict as the sequence of its items
        service_costs ==
            [k \in 1..Len(keys) |->
                LET name == groups[keys[k]].name
                    last == CHOOSE i \in 1..Len(groups) :
                              /\ groups[i].name = name
                              /\ \A j \in (i + 1)..Len(groups) : groups[j].name # name
                IN [name |-> name, cost |-> groups[last].cost]]
        \* total_cost += cost for every group
        total_cost == SumSeq([i \in 1..Len(groups) |-> groups[i].cost])
        trend == cost_trend(daily_costs)
    IN
    IF out.ce = "ok"
    THEN [total_cost_30_days |-> total_cost,
          daily_average |-> RoundDiv(total_cost * 100, 30),
          weekly_trend |-> trend.weekly_trend,
          recent_7_days_cost |-> trend.recent_7_days_cost,
          previous_7_days_cost |-> trend.previous_7_days_cost,
          service_breakdown |-> SortedByCost(service_costs),
          daily_costs |-> LastN(daily_costs, 7),
          period |-> "30d"]
    ELSE [error |-> <<"Cost analysis error: ", "access denied">>]

\* AWSMetrics._get_<kind>_details
get_resource_details(kind, out) ==
    IF kind \in out.failed THEN [error |-> <<kind, " details error: ", "access denied">>]
    ELSE [total |-> 1]

\* AWSMetrics.get_comprehensive_aws_report
get_comprehensive_aws_report(self, out) ==
    IF ~(Truthy(self.aws_access_key) /\ Truthy(self.aws_secret_key))
    THEN [error |-> <<"AWS credentials not configured">>]
    ELSE [cost_analysis |-> get_cost_analysis(out),
          resources |-> [k \in InventoryKinds |-> get_resource_details(k, out)],
          recommendations |-> get_cost_optimization_recommendations]

\* AWSMetrics.get_cost_metrics
get_cost_metrics(self, out) ==
    IF ~(Truthy(self.aws_access_key) /\ Truthy(self.aws_secret_key))
    THEN [error |-> <<"AWS credentials not configured">>]
    ELSE LET comprehensive_report == get_comprehensive_aws_report(self, out)
             cost_analysis == comprehensive_report.cost_analysis
         IN IF "error" \in DOMAIN cost_analysis THEN cost_analysis
            ELSE [total_cost_last_30_days |-> cost_analysis.total_cost_30_days,
                  currency |-> "USD",
                  period |-> cost_analysis.period,
                  top_services |-> FirstN(cost_analysis.service_breakdown, 5),
                  cto_insights |->
                     [cost_trend |->
                         [weekly_trend |-> cost_analysis.weekly_trend,
                          daily_average |-> cost_analysis.daily_average,
                          recent_7_days_cost |-> cost_analysis.recent_7_days_cost,
                          previous_7_days_cost |-> cost_analysis.previous_7_days_cost,
                          daily_costs |-> cost_analysis.daily_costs],
                      resource_inventory |-> comprehensive_report.resources,
                      optimization_recommendations |-> comprehensive_report.recommendations,
                      detailed_service_breakdown |-> cost_analysis.service_breakdown]]

AwsConfigured(self) == Truthy(self.aws_access_key) /\ Truthy(self.aws_secret_key)

AwsCalls(self, out, at) ==
    IF ~AwsConfigured(self) THEN <<>>
    ELSE <<Call("aws", "ce", "cost_and_usage", at), Call("aws", "inventory", "resources", at)>>

AwsMet(self, out) == IF AwsConfigured(self) THEN <<out>> ELSE <<>>

\* ------------------------------------------------------ RailwayMetrics
\* requests.get(..., timeout=5)
ProbeHasTimeout == TRUE
\* aiohttp.ClientSession(): the library's default total timeout applies
GraphqlHasTimeout == TRUE

\* str(x) of a str-or-None value inside an f-string
PyRepr(x) == IF x.type = "NoneType" THEN "None" ELSE x.v

ProbeOutcomes == {Http(404), Http(200), Raised, Silent}

GraphqlOutcomes ==
    {[resp |-> Http(200), body |-> b] : b \in {"data", "errors"}}
    \cup {[resp |-> x, body |-> "none"] : x \in {Http(500), Raised, Silent}}

\* the deployments of a 200 response with data: TRUE is status SUCCESS
DeploymentsJson == <<TRUE, FALSE, TRUE>>

\* RailwayMetrics._get_fallback_metrics(additional_error)
get_fallback_metrics(self, additional_error) ==
    [status |-> "api_unavailable",
     error |-> <<"Railway API endpoints are currently unavailable (all return 404)">>,
     project_id |-> self.railway_project_id,
     attempted_endpoint |-> self.railway_base_url.v,
     fallback_data |-> [project_name |-> <<"Project: ", PyRepr(self.railway_project_id)>>,
                        total_deployments |-> "N/A",
                        success_rate |-> "N/A"],
     next_steps |-> <<"1. Check Railway's official documentation for API changes",
                      "2. Verify if Railway has moved to CLI-only approach",
                      "3. Consider using Railway CLI in deployment pipeline",
                      "4. Check if token needs to be regenerated">>,
     additional_error |-> additional_error]

\* RailwayMetrics._attempt_graphql_query, meeting out
attempt_graphql_query(self, out) ==
    LET resp == Effective(out.resp, GraphqlHasTimeout)
        total == Len(DeploymentsJson)
        ok == Cardinality({i \in 1..Len(DeploymentsJson) : DeploymentsJson[i]})
    IN IF resp.kind = "exception"
       THEN get_fallback_metrics(self, PyStr("GraphQL query failed: connection failed"))
       ELSE IF resp.status # 200
            THEN get_fallback_metrics(self, PyStr("GraphQL endpoint returned 500: body"))
       ELSE IF out.body = "errors"
            THEN get_fallback_metrics(self, PyStr("GraphQL errors: not found"))
       ELSE [status |-> "success",
             project_name |-> "Project",
             total_deployments |-> total,
             successful_deployments |-> ok,
             success_rate |-> ResolutionRate(ok, total),
             last_deployment |-> "2024-08-01"]

\* no GraphQL request was made
NoGraphql == [resp |-> NotCalled, body |-> "none"]

\* a faulty variant: any answered probe lets the full query go ahead
ProbePassedAlways(probe) == Effective(probe, ProbeHasTimeout).kind = "http"

\* test_response.status_code != 404, line 647
ProbePassed(probe) ==
    LET test_response == Effective(probe, ProbeHasTimeout)
    IN test_response.kind = "http" /\ test_response.status # 404

\* RailwayMetrics.get_deployment_metrics, meeting probe and then gq
get_deployment_metrics(self, probe, gq) ==
    IF ~Truthy(self.railway_token)
    THEN [error |-> <<"Railway token not configured">>, status |-> "missing_token"]
    ELSE IF Effective(probe, ProbeHasTimeout).kind = "exception"
         THEN get_fallback_metrics(self, PyStr("Connection error: connection failed"))
    ELSE IF ProbePassed(probe) THEN attempt_graphql_query(self, gq)
    ELSE get_fallback_metrics(self, PyNone)

\* --------------------------------------------------- MetricsAggregator
\* MetricsAggregator.__init__: each adapter reads its settings from the
\* environment when it is constructed
NewAggregator(env) ==
    [github_token |-> getenv(env, "GITHUB_TOKEN"),
     github_org |-> getenv_default(env, "GITHUB_ORG", ""),
     jira_url |-> getenv(env, "JIRA_URL"),
     jira_email |-> getenv(env, "JIRA_EMAIL"),
     jira_token |-> getenv(env, "JIRA_TOKEN"),
     aws_access_key |-> getenv(env, "AWS_ACCESS_KEY_ID"),
     aws_secret_key |-> getenv(env, "AWS_SECRET_ACCESS_KEY"),
     railway_token |-> getenv(env, "RAILWAY_TOKEN"),
     railway_base_url |-> getenv_default(env, "RAILWAY_API_URL", "https://backboard.railway.app/graphql"),
     railway_project_id |-> getenv(env, "RAILWAY_PROJECT_ID")]

NoAggregator == NewAggregator(EmptyDict)

\* assignment_config.get("metrics_config", {}).get(s, {})
ServiceConfig(a, s) == DictGet(DictGet(a, "metrics_config", EmptyDict), s, EmptyDict)

\* a faulty variant: a service counts as enabled unless its flag says otherwise
EnabledByDefault(a, s) == DictGet(ServiceConfig(a, s), "enabled", TRUE)

\* <s>_config.get("enabled", False)
Enabled(a, s) == DictGet(ServiceConfig(a, s), "enabled", FALSE)

\* the first statement of get_all_metrics
NewMetrics(a, clock) ==
    [timestamp |-> clock, assignment_id |-> DictGet(a, "id", "unknown")]

\* no request issued yet
NothingMet == [github |-> <<>>, jira |-> <<>>, aws |-> <<>>, probe |-> <<>>, graphql |-> <<>>]

Init ==
    /\ environ \in Environs
    /\ now = 0
    /\ pc = [t \in Requests |-> "idle"]
    /\ asg = [t \in Requests |-> EmptyDict]
    /\ agg = [t \in Requests |-> NoAggregator]
    /\ metrics = [t \in Requests |-> EmptyDict]
    /\ github_data = [t \in Requests |-> <<>>]
    /\ calls = [t \in Requests |-> <<>>]
    /\ prior = [t \in Requests |-> {}]
    /\ met = [t \in Requests |-> NothingMet]
    /\ unit = NoUnit
    /\ FrameInit

\* backend/main.py get_assignment_metrics: the assignment is loaded and a
\* MetricsAggregator is constructed for this request
Construct(t, pool) ==
    /\ pc[t] = "idle"
    /\ \E a \in pool : asg' = [asg EXCEPT ![t] = a]
    /\ agg' = [agg EXCEPT ![t] = NewAggregator(environ)]
    /\ prior' = [prior EXCEPT ![t] = {u \in Requests : pc[u] = "done"}]
    /\ pc' = [pc EXCEPT ![t] = "constructed"]
    /\ UNCHANGED <<environ, now, metrics, github_data, calls, met>>
    /\ UNCHANGED <<unit, frame>>

\* a faulty variant: the report is started without reading the clock
BeginNoTimestamp(t) ==
    /\ pc[t] = "constructed"
    /\ metrics' = [metrics EXCEPT ![t] = [assignment_id |-> DictGet(asg[t], "id", "unknown")]]
    /\ now' = now + 1
    /\ pc' = [pc EXCEPT ![t] = "github"]
    /\ UNCHANGED <<environ, asg, agg, github_data, calls, prior, met>>
    /\ UNCHANGED <<unit, frame>>

\* get_all_metrics, lines 774-777
Begin(t) ==
    /\ pc[t] = "constructed"
    /\ metrics' = [metrics EXCEPT ![t] = NewMetrics(asg[t], now)]
    /\ now' = now + 1
    /\ pc' = [pc EXCEPT ![t] = "github"]
    /\ UNCHANGED <<environ, asg, agg, github_data, calls, prior, met>>
    /\ UNCHANGED <<unit, frame>>

\* line 781, the flag is off
GithubSkip(t) ==
    /\ pc[t] = "github"
    /\ ~Enabled(asg[t], "github")
    /\ pc' = [pc EXCEPT ![t] = "jira"]
    /\ UNCHANGED <<environ, now, asg, agg, metrics, github_data, calls, prior, met>>
    /\ UNCHANGED <<unit, frame>>

\* line 785: for repo in repos, with repos not iterable, raises TypeError
GithubRaise(t) ==
    /\ pc[t] = "github"
    /\ Enabled(asg[t], "github")
    /\ DictGet(ServiceConfig(asg[t], "github"), "repos", PyList(<<>>)).type # "list"
    /\ pc' = [pc EXCEPT ![t] = "raised"]
    /\ UNCHANGED <<environ, now, asg, agg, metrics, github_data, calls, prior, met>>
    /\ UNCHANGED <<unit, frame>>

\* lines 785-787: one iteration of the loop
GithubRepo(t) ==
    /\ pc[t] = "github"
    /\ Enabled(asg[t], "github")
    /\ LET cfg == ServiceConfig(asg[t], "github")
           repos == DictGet(cfg, "repos", PyList(<<>>))
           org == DictGet(cfg, "org", "")
       IN /\ repos.type = "list"
          /\ Len(github_data[t]) < Len(repos.items)
          /\ LET repo == repos.items[Len(github_data[t]) + 1] IN
             \E out \in GithubOutcomes :
                /\ calls' = [calls EXCEPT ![t] = @ \o GithubCalls(agg[t], repo, org, out, now)]
                /\ met' = [met EXCEPT ![t].github = Append(@, GithubMet(agg[t], org, out))]
                /\ IF GithubConfigured(agg[t], org) /\ Blocks(out.meta, GithubHasTimeout)
                   THEN /\ pc' = [pc EXCEPT ![t] = "blocked"]
                        /\ UNCHANGED github_data
                   ELSE /\ github_data' = [github_data EXCEPT ![t] =
                                             Append(@, get_repo_metrics(agg[t], repo, org, out))]
                        /\ UNCHANGED pc
    /\ UNCHANGED <<environ, now, asg, agg, metrics, prior>>
    /\ UNCHANGED <<unit, frame>>

\* line 788, after the last iteration
GithubStore(t) ==
    /\ pc[t] = "github"
    /\ Enabled(asg[t], "github")
    /\ LET repos == DictGet(ServiceConfig(asg[t], "github"), "repos", PyList(<<>>)) IN
          /\ repos.type = "list"
          /\ Len(github_data[t]) = Len(repos.items)
    /\ metrics' = [metrics EXCEPT ![t] = DictSet(@, "github", github_data[t])]
    /\ pc' = [pc EXCEPT ![t] = "jira"]
    /\ UNCHANGED <<environ, now, asg, agg, github_data, calls, prior, met>>
    /\ UNCHANGED <<unit, frame>>

\* a faulty variant: a disabled service gets a placeholder slot
JiraSkipPlaceholder(t) ==
    /\ pc[t] = "jira"
    /\ ~Enabled(asg[t], "jira")
    /\ metrics' = [metrics EXCEPT ![t] = DictSet(@, "jira", [note |-> "Mock data"])]
    /\ pc' = [pc EXCEPT ![t] = "aws"]
    /\ UNCHANGED <<environ, now, asg, agg, github_data, calls, prior, met>>
    /\ UNCHANGED <<unit, frame>>

\* line 792, the flag is off
JiraSkip(t) ==
    /\ pc[t] = "jira"
    /\ ~Enabled(asg[t], "jira")
    /\ pc' = [pc EXCEPT ![t] = "aws"]
    /\ UNCHANGED <<environ, now, asg, agg, metrics, github_data, calls, prior, met>>
    /\ UNCHANGED <<unit, frame>>

\* lines 793-794
JiraCall(t) ==
    /\ pc[t] = "jira"
    /\ Enabled(asg[t], "jira")
    /\ LET project_key == DictGet(ServiceConfig(asg[t], "jira"), "project_key", "") IN
       \E out \in JiraOutcomes :
          /\ calls' = [calls EXCEPT ![t] = @ \o JiraCalls(agg[t], project_key, out, now)]
          /\ met' = [met EXCEPT ![t].jira = JiraMet(agg[t], project_key, out)]
          /\ IF JiraConfigured(agg[t], project_key) /\ Blocks(out.search, JiraHasTimeout)
             THEN /\ pc' = [pc EXCEPT ![t] = "blocked"]
                  /\ UNCHANGED metrics
             ELSE /\ metrics' = [metrics EXCEPT ![t] =
                                   DictSet(@, "jira", get_project_metrics(agg[t], project_key, out))]
                  /\ pc' = [pc EXCEPT ![t] = "aws"]
    /\ UNCHANGED <<environ, now, asg, agg, github_data, prior>>
    /\ UNCHANGED <<unit, frame>>

\* line 798, the flag is off
AwsSkip(t) ==
    /\ pc[t] = "aws"
    /\ ~Enabled(asg[t], "aws")
    /\ pc' = [pc EXCEPT ![t] = "railway"]
    /\ UNCHANGED <<environ, now, asg, agg, metrics, github_data, calls, prior, met>>
    /\ UNCHANGED <<unit, frame>>

\* a faulty variant: a failed AWS result is left out of the report
AwsCallDropErrors(t) ==
    /\ pc[t] = "aws"
    /\ Enabled(asg[t], "aws")
    /\ \E out \in AwsOutcomes :
          /\ calls' = [calls EXCEPT ![t] = @ \o AwsCalls(agg[t], out, now)]
          /\ met' = [met EXCEPT ![t].aws = AwsMet(agg[t], out)]
          /\ metrics' = [metrics EXCEPT ![t] =
                IF IsError(get_cost_metrics(agg[t], out)) THEN @
                ELSE DictSet(@, "aws", get_cost_metrics(agg[t], out))]
    /\ pc' = [pc EXCEPT ![t] = "railway"]
    /\ UNCHANGED <<environ, now, asg, agg, github_data, prior>>
    /\ UNCHANGED <<unit, frame>>

\* line 799
AwsCall(t) ==
    /\ pc[t] = "aws"
    /\ Enabled(asg[t], "aws")
    /\ \E out \in AwsOutcomes :
          /\ calls' = [calls EXCEPT ![t] = @ \o AwsCalls(agg[t], out, now)]
          /\ met' = [met EXCEPT ![t].aws = AwsMet(agg[t], out)]
          /\ metrics' = [metrics EXCEPT ![t] = DictSet(@, "aws", get_cost_metrics(agg[t], out))]
    /\ pc' = [pc EXCEPT ![t] = "railway"]
    /\ UNCHANGED <<environ, now, asg, agg, github_data, prior>>
    /\ UNCHANGED <<unit, frame>>

\* line 803, the flag is off; line 807 returns metrics
RailwaySkip(t) ==
    /\ pc[t] = "railway"
    /\ ~Enabled(asg[t], "railway")
    /\ pc' = [pc EXCEPT ![t] = "done"]
    /\ UNCHANGED <<environ, now, asg, agg, metrics, github_data, calls, prior, met>>
    /\ UNCHANGED <<unit, frame>>

\* line 804: os.environ["RAILWAY_PROJECT_ID"] = railway_config.get("project_id", "");
\* os.environ accepts only str and raises TypeError otherwise
RailwaySetEnv(t) ==
    /\ pc[t] = "railway"
    /\ Enabled(asg[t], "railway")
    /\ LET project_id == DictGet(ServiceConfig(asg[t], "railway"), "project_id", PyStr("")) IN
          IF project_id.type = "str"
          THEN /\ environ' = DictSet(environ, "RAILWAY_PROJECT_ID", project_id.v)
               /\ pc' = [pc EXCEPT ![t] = "deploy"]
          ELSE /\ pc' = [pc EXCEPT ![t] = "raised"]
               /\ UNCHANGED environ
    /\ UNCHANGED <<now, asg, agg, metrics, github_data, calls, prior, met>>
    /\ UNCHANGED <<unit, frame>>

\* line 805 into RailwayMetrics.get_deployment_metrics, up to the probe's answer
RailwayProbe(t) ==
    /\ pc[t] = "deploy"
    /\ IF ~Truthy(agg[t].railway_token)
       THEN /\ metrics' = [metrics EXCEPT ![t] =
                             DictSet(@, "railway", get_deployment_metrics(agg[t], NotCalled, NoGraphql))]
            /\ pc' = [pc EXCEPT ![t] = "done"]
            /\ UNCHANGED <<calls, met>>
       ELSE \E out \in ProbeOutcomes :
              /\ calls' = [calls EXCEPT ![t] = Append(@, Call("railway", "probe", "projects", now))]
              /\ met' = [met EXCEPT ![t].probe = <<out>>]
              /\ IF ProbePassed(out)
                 THEN /\ pc' = [pc EXCEPT ![t] = "graphql"]
                      /\ UNCHANGED metrics
                 ELSE /\ metrics' = [metrics EXCEPT ![t] =
                                       DictSet(@, "railway", get_deployment_metrics(agg[t], out, NoGraphql))]
                      /\ pc' = [pc EXCEPT ![t] = "done"]
    /\ UNCHANGED <<environ, now, asg, agg, github_data, prior>>
    /\ UNCHANGED <<unit, frame>>

\* line 649 into RailwayMetrics._attempt_graphql_query; line 807 returns metrics
RailwayGraphql(t) ==
    /\ pc[t] = "graphql"
    /\ \E out \in GraphqlOutcomes :
          /\ calls' = [calls EXCEPT ![t] =
                         Append(@, Call("railway", "graphql", PyRepr(agg[t].railway_project_id), now))]
          /\ met' = [met EXCEPT ![t].graphql = <<out>>]
          /\ metrics' = [metrics EXCEPT ![t] =
                           DictSet(@, "railway", get_deployment_metrics(agg[t], met[t].probe[1], out))]
    /\ pc' = [pc EXCEPT ![t] = "done"]
    /\ UNCHANGED <<environ, now, asg, agg, github_data, prior>>
    /\ UNCHANGED <<unit, frame>>

\* one aggregation, from the request to the returned report
Step(t) ==
    \/ Construct(t, Assignments)
    \/ Begin(t)
    \/ GithubSkip(t) \/ GithubRaise(t) \/ GithubRepo(t) \/ GithubStore(t)
    \/ JiraSkip(t) \/ JiraCall(t)
    \/ AwsSkip(t) \/ AwsCall(t)
    \/ RailwaySkip(t) \/ RailwaySetEnv(t) \/ RailwayProbe(t) \/ RailwayGraphql(t)

\* a single aggregation at a time
Next == Step(1)

Spec == Init /\ [][Next]_vars

\* ------------------------------------------- concurrent aggregations
\* assignments that differ in their Railway project id, and one with Railway
\* switched off
ConcAssignments ==
    {[id |-> "A", metrics_config |-> [railway |-> [enabled |-> TRUE, project_id |-> PyStr("pA")]]],
     [id |-> "B", metrics_config |-> [railway |-> [enabled |-> TRUE, project_id |-> PyStr("pB")]]],
     [id |-> "C", metrics_config |-> [railway |-> [enabled |-> FALSE, project_id |-> PyStr("pC")]]]}

\* process environments that differ in RAILWAY_TOKEN only
ConcEnvirons == {e \in Environs : OptionalVars \ {"RAILWAY_TOKEN"} \subseteq DOMAIN e}

InitConc ==
    /\ environ \in ConcEnvirons
    /\ now = 0
    /\ pc = [t \in Requests |-> "idle"]
    /\ asg = [t \in Requests |-> EmptyDict]
    /\ agg = [t \in Requests |-> NoAggregator]
    /\ metrics = [t \in Requests |-> EmptyDict]
    /\ github_data = [t \in Requests |-> <<>>]
    /\ calls = [t \in Requests |-> <<>>]
    /\ prior = [t \in Requests |-> {}]
    /\ met = [t \in Requests |-> NothingMet]
    /\ unit = NoUnit
    /\ FrameInit

\* one request of the threaded web server working on one of ConcAssignments
ConcStep(t) ==
    \/ Construct(t, ConcAssignments)
    \/ Begin(t)
    \/ GithubSkip(t)
    \/ JiraSkip(t)
    \/ AwsSkip(t)
    \/ RailwaySkip(t) \/ RailwaySetEnv(t) \/ RailwayProbe(t) \/ RailwayGraphql(t)

\* the requests run in threads of one process and share os.environ
NextConc == \E t \in Requests : ConcStep(t)

SpecConc == InitConc /\ [][NextConc]_vars

\* ------------------------------------------------ EmbeddedGitHubMetrics
\* requests.get(repo_url, headers=headers, timeout=10)
EmbeddedHasTimeout == TRUE

\* EmbeddedGitHubMetrics.__init__
NewEmbeddedGitHubMetrics(env) ==
    [token |-> getenv(env, "GITHUB_TOKEN"), base_url |-> "https://api.github.com"]

\* one iteration of the loop of EmbeddedGitHubMetrics.get_repo_metrics: the
\* entry appended for repo, meeting the responses out
embedded_repo_entry(self, org, repo, out) ==
    LET repo_response == Effective(out.meta, EmbeddedHasTimeout) IN
    IF repo_response.kind = "exception"
    THEN [repo_name |-> repo, error |-> <<"GitHub API error: ", "connection failed">>]
    ELSE IF repo_response.status # 200
    THEN [repo_name |-> repo, error |-> <<"GitHub API returned ", StatusText(repo_response.status)>>]
    ELSE [repo_name |-> repo,
          commits_last_30_days |-> IF out.commits.status = 200 THEN Len(CommitsJson) ELSE 0,
          total_prs |-> IF out.prs.status = 200 THEN Len(PullsJson) ELSE 0,
          open_issues |-> DictGet(RepoJson, "open_issues_count", 0),
          stars |-> DictGet(RepoJson, "stargazers_count", 0),
          language |-> DictGet(RepoJson, "language", "Unknown"),
          last_updated |-> DictGet(RepoJson, "updated_at", "")]

\* the requests that iteration issues
EmbeddedCalls(repo, out, at) ==
    IF out.meta.kind = "http" /\ out.meta.status = 200
    THEN <<Call("github", "repo", repo, at), Call("github", "commits", repo, at),
           Call("github", "pulls", repo, at)>>
    ELSE <<Call("github", "repo", repo, at)>>

\* get_repo_metrics(org, repos) is entered; asg[t] holds its arguments and
\* agg[t] the adapter
EmbeddedCall(t) ==
    /\ pc[t] = "idle"
    /\ \E q \in SeqUpTo(RepoNames, MaxRepos) :
          asg' = [asg EXCEPT ![t] = [org |-> "acme", repos |-> q]]
    /\ agg' = [agg EXCEPT ![t] = NewEmbeddedGitHubMetrics(environ)]
    /\ pc' = [pc EXCEPT ![t] = "entered"]
    /\ UNCHANGED <<environ, now, metrics, github_data, calls, prior, met>>
    /\ UNCHANGED <<unit, frame>>

\* lines 10-11: without a token the call returns at once; the endpoint stores
\* the returned list as the github slot
EmbeddedNoToken(t) ==
    /\ pc[t] = "entered"
    /\ ~Truthy(agg[t].token)
    /\ metrics' = [metrics EXCEPT ![t] =
                     [github |-> <<[error |-> <<"GitHub token not configured">>]>>]]
    /\ pc' = [pc EXCEPT ![t] = "returned"]
    /\ UNCHANGED <<environ, now, asg, agg, github_data, calls, prior, met>>
    /\ UNCHANGED <<unit, frame>>

\* lines 15-60: one iteration; github_data[t] is the list repo_metrics
EmbeddedRepo(t) ==
    /\ pc[t] = "entered"
    /\ Truthy(agg[t].token)
    /\ Len(github_data[t]) < Len(asg[t].repos)
    /\ LET repo == asg[t].repos[Len(github_data[t]) + 1] IN
       \E out \in GithubOutcomes :
          /\ calls' = [calls EXCEPT ![t] = @ \o EmbeddedCalls(repo, out, now)]
          /\ met' = [met EXCEPT ![t].github = Append(@, out)]
          /\ github_data' = [github_data EXCEPT ![t] =
                               Append(@, embedded_repo_entry(agg[t], asg[t].org, repo, out))]
    /\ UNCHANGED <<environ, now, pc, asg, agg, metrics, prior>>
    /\ UNCHANGED <<unit, frame>>

\* line 62: return repo_metrics; the endpoint stores it as the github slot
EmbeddedReturn(t) ==
    /\ pc[t] = "entered"
    /\ Truthy(agg[t].token)
    /\ Len(github_data[t]) = Len(asg[t].repos)
    /\ metrics' = [metrics EXCEPT ![t] = [github |-> github_data[t]]]
    /\ pc' = [pc EXCEPT ![t] = "returned"]
    /\ UNCHANGED <<environ, now, asg, agg, github_data, calls, prior, met>>
    /\ UNCHANGED <<unit, frame>>

EmbeddedStep(t) ==
    \/ EmbeddedCall(t)
    \/ EmbeddedNoToken(t)
    \/ EmbeddedRepo(t)
    \/ EmbeddedReturn(t)

NextEmbedded == EmbeddedStep(1)

SpecEmbedded == Init /\ [][NextEmbedded]_vars

\* ------------------------------------------------- EmbeddedAWSMetrics
\* where boto3 finds credentials when the environment holds no access key:
\* in a shared credentials file or an instance role, or nowhere
DefaultChain == {"found", "none"}

\* boto3.client(...) in _get_aws_client: the environment's key pair is used
\* when both are set, an access key without its secret makes the client
\* creation raise, and without an access key the default chain decides
embedded_credentials(env, chain) ==
    IF "AWS_ACCESS_KEY_ID" \in DOMAIN env
    THEN IF "AWS_SECRET_ACCESS_KEY" \in DOMAIN env THEN "env" ELSE "partial"
    ELSE chain

\* the answers of Cost Explorer to get_cost_and_usage: the day totals and the
\* amounts by service, or a ClientError code
ServiceCostLists ==
    {<<>>}
    \cup {<<[name |-> "EC2", cost |-> a]>> : a \in {0, 290, 300, 350, 400}}
    \cup {<<[name |-> "EC2", cost |-> a], [name |-> "S3", cost |-> b]>> :
             a, b \in {0, 290, 300, 350, 400}}

EmbeddedCostResponses ==
    {[kind |-> "ok", daily |-> d, services |-> sc] :
        d \in {<<>>, Run(7, 5) \o Run(7, 10), Run(3, 10)},
        sc \in {<<>>, <<[name |-> "EC2", cost |-> 350], [name |-> "S3", cost |-> 400]>>}}
    \cup {[kind |-> "AccessDenied"], [kind |-> "Throttling"]}

\* EmbeddedAWSMetrics.get_real_cost_metrics; amounts in whole units,
\* daily_average in hundredths
get_real_cost_metrics(credentials, resp) ==
    IF credentials = "partial" THEN [error |-> <<"AWS Cost Explorer client not available">>]
    ELSE IF credentials = "none"
    THEN [error |-> <<"AWS metrics error: ", "Unable to locate credentials">>]
    ELSE IF resp.kind = "AccessDenied"
    THEN [error |-> <<"AWS API error: User needs ce:GetCostAndUsage permission">>]
    ELSE IF resp.kind # "ok" THEN [error |-> <<"AWS API error: ", resp.kind>>]
    ELSE LET daily_costs == resp.daily
             service_costs == resp.services
             total_cost == SumSeq(daily_costs)
             trend == embedded_cost_trend(daily_costs)
             recommendations == get_cost_recommendations(total_cost, service_costs)
         IN IF "raised" \in DOMAIN recommendations
            THEN [error |-> <<"AWS metrics error: ", "float division by zero">>]
            ELSE [total_cost_last_30_days |-> total_cost,
                  daily_average |-> IF daily_costs # <<>>
                                    THEN RoundDiv(total_cost * 100, Len(daily_costs)) ELSE 0,
                  daily_costs |-> daily_costs,
                  top_services |-> FirstN(SortedByCost(service_costs), 5),
                  all_services |-> service_costs,
                  currency |-> "USD",
                  recent_7_days_cost |-> trend.recent_7_days_cost,
                  previous_7_days_cost |-> trend.previous_7_days_cost,
                  weekly_trend |-> trend.weekly_trend,
                  recommendations |-> recommendations.value]

\* the requests get_real_cost_metrics issues: none unless credentials were found
RealCostCalls(credentials) ==
    IF credentials \in {"env", "found"} THEN <<Call("aws", "ce", "cost_and_usage", 0)>> ELSE <<>>

\* the kinds get_real_resource_metrics queries, in its order, and the kinds
\* its inventory lists
EmbeddedQueried == <<"ec2", "rds", "s3">>
EmbeddedListed == {"ec2", "lightsail", "rds", "s3"}

\* each query succeeds, raises a ClientError, or raises another exception
\* (no connection, no credentials)
EmbeddedResourceOutcomes == [{"ec2", "rds", "s3"} -> {"ok", "ClientError", "BotoCoreError"}]

\* the initial entry of a kind in inventory, and its entry after a successful
\* query that found one resource
EmptyInventory(kind) == [items |-> <<>>, total |-> 0]
FoundInventory(kind) == [items |-> <<kind>>, total |-> 1]

\* EmbeddedAWSMetrics.get_real_resource_metrics
get_real_resource_metrics(out) ==
    IF \E k \in DOMAIN out : out[k] = "BotoCoreError"
    THEN [error |-> <<"AWS resource metrics error: ", "connection failed">>]
    ELSE [inventory |-> [k \in EmbeddedListed |->
                            IF k \in DOMAIN out /\ out[k] = "ok"
                            THEN FoundInventory(k) ELSE EmptyInventory(k)]]

\* the queries get_real_resource_metrics issues: in order, up to the first one
\* that raises something other than a ClientError
RealResourceCalls(out) ==
    LET stop == {i \in 1..Len(EmbeddedQueried) : out[EmbeddedQueried[i]] = "BotoCoreError"}
        last == IF stop = {} THEN Len(EmbeddedQueried)
                ELSE CHOOSE i \in stop : \A j \in stop : i <= j
    IN [i \in 1..last |-> Call("aws", "inventory", EmbeddedQueried[i], 0)]

\* ----------------------------------------------------- issue metrics
\* most issues in a search response
MaxIssues == 20

\* a search response with total issues of which resolved have a resolutiondate
IssueList(total, resolved) == [i \in 1..total |-> i <= resolved]

\* JiraMetrics.get_project_metrics, lines 125-136 (the same lines are in
\* services/embedded/jira_metrics.py, 40-52)
issue_metrics(issues) ==
    LET total_issues == Len(issues)
        resolved_issues == Cardinality({i \in 1..Len(issues) : issues[i]})
    IN [total_issues_last_30_days |-> total_issues,
        resolved_issues_last_30_days |-> resolved_issues,
        resolution_rate |-> ResolutionRate(resolved_issues, total_issues)]

\* ------------------------------------------- the functions one at a time
\* the environment the adapters are constructed in
UnitEnvirons ==
    {[k \in S |-> "set"] : S \in SUBSET {"AWS_ACCESS_KEY_ID", "AWS_SECRET_ACCESS_KEY"}}

\* a call of fn with args that returned ret after issuing requests; the
\* functions keep nothing between calls, so a behaviour holds one call
Applied(fn, args, ret, requests) ==
    [fn |-> fn, args |-> args, ret |-> ret, requests |-> requests]

InitUnits ==
    /\ environ \in UnitEnvirons
    /\ now = 0
    /\ pc = [t \in Requests |-> "idle"]
    /\ asg = [t \in Requests |-> EmptyDict]
    /\ agg = [t \in Requests |-> NoAggregator]
    /\ metrics = [t \in Requests |-> EmptyDict]
    /\ github_data = [t \in Requests |-> <<>>]
    /\ calls = [t \in Requests |-> <<>>]
    /\ prior = [t \in Requests |-> {}]
    /\ met = [t \in Requests |-> NothingMet]
    /\ unit = NoUnit
    /\ FrameInit

\* JiraMetrics.get_project_metrics on a search response
UnitIssueMetrics ==
    /\ unit = NoUnit
    /\ \E total \in 0..MaxIssues : \E resolved \in 0..total :
          unit' = Applied("issue_metrics", IssueList(total, resolved),
                          issue_metrics(IssueList(total, resolved)), <<>>)
    /\ UNCHANGED <<aggregation, frame>>

\* AWSMetrics._get_cost_analysis on a daily series
UnitCostTrend ==
    /\ unit = NoUnit
    /\ \E d \in DailySeries : unit' = Applied("cost_trend", d, cost_trend(d), <<>>)
    /\ UNCHANGED <<aggregation, frame>>

\* EmbeddedAWSMetrics.get_real_cost_metrics on a daily series
UnitEmbeddedCostTrend ==
    /\ unit = NoUnit
    /\ \E d \in DailySeries :
          unit' = Applied("embedded_cost_trend", d, embedded_cost_trend(d), <<>>)
    /\ UNCHANGED <<aggregation, frame>>

\* EmbeddedAWSMetrics._get_cost_recommendations
UnitCostRecommendations ==
    /\ unit = NoUnit
    /\ \E total_cost \in {0, 1000} : \E service_costs \in ServiceCostLists :
          unit' = Applied("_get_cost_recommendations",
                          [total_cost |-> total_cost, service_costs |-> service_costs],
                          get_cost_recommendations(total_cost, service_costs), <<>>)
    /\ UNCHANGED <<aggregation, frame>>

\* AWSMetrics() followed by get_cost_metrics()
UnitGetCostMetrics ==
    /\ unit = NoUnit
    /\ LET \* the answers of Cost Explorer: the day totals of the DAILY query,
           \* oldest day first, and ResultsByTime of the MONTHLY query grouped
           \* by service: no period, one period, or two periods when the 30
           \* days span a month boundary
           CostPatterns == {"up", "down", "flat", "mixed"}
           MonthlyAnswers ==
               {<<>>}
               \cup {<<Groups(n, p)>> : n \in 0..MaxServices, p \in CostPatterns}
               \cup {<<Groups(n, p), Groups(m, q)>> :
                        n \in 0..MaxServices, p \in CostPatterns, m \in 1..2,
                        q \in {"up", "flat"}}
           DailyAnswers == {Run(n1, 5) \o Run(n2, 10) : n1 \in {0, 3, MaxRun}, n2 \in {0, 4}}
           CostAnswers ==
               {[daily |-> d, periods |-> m] : d \in DailyAnswers, m \in MonthlyAnswers}
       IN \E out \in {[ce |-> c, failed |-> F] :
                         c \in {"ok", "fail"}, F \in SUBSET InventoryKinds}
                     \cup {[ce |-> "ok", failed |-> {}, answer |-> a] : a \in CostAnswers} :
             LET self == NewAggregator(environ) IN
             unit' = Applied("get_cost_metrics", out, get_cost_metrics(self, out),
                             AwsCalls(self, out, 0))
    /\ UNCHANGED <<aggregation, frame>>

\* EmbeddedAWSMetrics() followed by get_real_cost_metrics()
UnitRealCostMetrics ==
    /\ unit = NoUnit
    /\ \E chain \in DefaultChain : \E resp \in EmbeddedCostResponses :
          LET credentials == embedded_credentials(environ, chain) IN
          unit' = Applied("get_real_cost_metrics", [chain |-> chain, resp |-> resp],
                          get_real_cost_metrics(credentials, resp),
                          RealCostCalls(credentials))
    /\ UNCHANGED <<aggregation, frame>>

\* EmbeddedAWSMetrics() followed by get_real_cost_metrics(), on an answer of
\* Cost Explorer
UnitRealCostAnswer ==
    /\ unit = NoUnit
    /\ \E ndays \in {0, 3, MaxRun, MaxRun + 4}, n \in 0..MaxServices,
          pat \in {"up", "down", "flat", "mixed"} :
          LET groups == Groups(n, pat)
              \* on each day the same services, the day's Total being the
              \* sum of its groups
              days == [d \in 1..ndays |->
                         [total |-> SumSeq([i \in 1..n |-> groups[i].cost]),
                          groups |-> groups]]
              \* lines 56-76: the day totals and the amounts by service
              all_groups == Flatten([d \in 1..Len(days) |-> days[d].groups])
              keys == FirstSeen(all_groups)
              \* lines 70-76: service_costs[service] += service_cost for every
              \* group in turn, a new entry when the service is not yet a key
              service_costs ==
                  [k \in 1..Len(keys) |->
                      LET name == all_groups[keys[k]].name
                          named == SelectSeq(all_groups, LAMBDA g : g.name = name)
                      IN [name |-> name,
                          cost |-> SumSeq([i \in 1..Len(named) |-> named[i].cost])]]
              resp == [kind |-> "ok",
                       daily |-> [d \in 1..Len(days) |-> days[d].total],
                       services |-> service_costs]
              credentials == embedded_credentials(environ, "found")
          IN
          unit' = Applied("get_real_cost_metrics",
                          [chain |-> "found", resp |-> resp, days |-> days],
                          get_real_cost_metrics(credentials, resp),
                          RealCostCalls(credentials))
    /\ UNCHANGED <<aggregation, frame>>

\* EmbeddedAWSMetrics() followed by get_real_resource_metrics()
UnitRealResourceMetrics ==
    /\ unit = NoUnit
    /\ \E out \in EmbeddedResourceOutcomes :
          unit' = Applied("get_real_resource_metrics", out,
                          get_real_resource_metrics(out), RealResourceCalls(out))
    /\ UNCHANGED <<aggregation, frame>>

NextUnits ==
    \/ UnitIssueMetrics
    \/ UnitCostTrend
    \/ UnitEmbeddedCostTrend
    \/ UnitCostRecommendations
    \/ UnitGetCostMetrics
    \/ UnitRealCostMetrics
    \/ UnitRealCostAnswer
    \/ UnitRealResourceMetrics

SpecUnits == InitUnits /\ [][NextUnits]_vars

\* ---------------------------------------------------- AssignmentService
\* A file of a directory holds a JSON object, [doc |-> d], or text that
\* json.load rejects, [unparsable |-> TRUE]. The directories are kept outside
\* the program: they start with no file for the id, with the record of an
\* active or completed assignment, with an archived record, or with a file
\* that does not parse.
InitAssignments ==
    /\ environ = EmptyDict
    /\ now = 0
    /\ pc = [t \in Requests |-> "idle"]
    /\ asg = [t \in Requests |-> EmptyDict]
    /\ agg = [t \in Requests |-> NoAggregator]
    /\ metrics = [t \in Requests |-> EmptyDict]
    /\ github_data = [t \in Requests |-> <<>>]
    /\ calls = [t \in Requests |-> <<>>]
    /\ prior = [t \in Requests |-> {}]
    /\ met = [t \in Requests |-> NothingMet]
    /\ unit = NoUnit
    /\ cancelled = [t \in Requests |-> -1]
    /\ conversation_history = [backend |-> <<>>, services |-> EmptyDict]
    /\ store \in
          {[active |-> EmptyDict, archived |-> EmptyDict]}
          \cup {[active |-> [k \in {"A"} |-> f], archived |-> EmptyDict] :
                   f \in {[doc |-> [id |-> "A", status |-> "active"]],
                          [doc |-> [id |-> "A", status |-> "completed"]],
                          [unparsable |-> TRUE]}}
          \cup {[active |-> EmptyDict, archived |-> [k \in {"A"} |-> f]] :
                   f \in {[doc |-> [id |-> "A", status |-> "archived", archived_date |-> 0]],
                          [unparsable |-> TRUE]}}

\* the call of an AssignmentService method on assignment_id that returned
\* ret, with the directories as they were before it and the call before it
AssignmentCall(fn, assignment_id, ret) ==
    Applied(fn,
            [assignment_id |-> assignment_id,
             before |-> store,
             prev |-> IF unit = NoUnit THEN NoUnit
                      ELSE [fn |-> unit.fn, assignment_id |-> unit.args.assignment_id,
                            ret |-> unit.ret, before |-> unit.args.before]],
            ret, <<>>)

\* AssignmentService.create_assignment
create_assignment ==
    /\ \E assignment_data \in {[id |-> "A", status |-> "active"],
                               [id |-> "A", status |-> "completed"],
                               [id |-> "A"],
                               [name |-> "no id"]} :
          LET assignment_id == DictGet(assignment_data, "id", "") IN
          IF assignment_id = ""
          THEN /\ unit' = AssignmentCall("create_assignment", assignment_id, FALSE)
               /\ UNCHANGED store
          ELSE /\ store' = [store EXCEPT
                               !.active = DictSet(@, assignment_id, [doc |-> assignment_data])]
               /\ unit' = AssignmentCall("create_assignment", assignment_id, TRUE)
    /\ UNCHANGED <<aggregation, cancelled, conversation_history>>

\* AssignmentService.update_assignment
update_assignment ==
    /\ \E assignment_id \in {"A", "B"} :
       \E assignment_data \in {[id |-> "A", status |-> "active"],
                               [id |-> "A", status |-> "completed"]} :
          IF assignment_id \notin DOMAIN store.active
          THEN /\ unit' = AssignmentCall("update_assignment", assignment_id, FALSE)
               /\ UNCHANGED store
          ELSE /\ store' = [store EXCEPT
                               !.active = DictSet(@, assignment_id, [doc |-> assignment_data])]
               /\ unit' = AssignmentCall("update_assignment", assignment_id, TRUE)
    /\ UNCHANGED <<aggregation, cancelled, conversation_history>>

\* AssignmentService.archive_assignment
archive_assignment ==
    /\ \E assignment_id \in {"A", "B"} :
          IF assignment_id \notin DOMAIN store.active
          THEN /\ unit' = AssignmentCall("archive_assignment", assignment_id, FALSE)
               /\ UNCHANGED store
          ELSE LET file == store.active[assignment_id]
                   \* line 117: active_path.rename(archived_path)
                   active == [k \in DOMAIN store.active \ {assignment_id} |-> store.active[k]]
               IN IF "unparsable" \in DOMAIN file
                  THEN \* line 121: json.load raises, the except returns False
                       /\ store' = [active |-> active,
                                    archived |-> DictSet(store.archived, assignment_id, file)]
                       /\ unit' = AssignmentCall("archive_assignment", assignment_id, FALSE)
                  ELSE LET assignment ==
                               DictSet(DictSet(file.doc, "status", "archived"),
                                       "archived_date", now)
                       IN /\ store' = [active |-> active,
                                       archived |-> DictSet(store.archived, assignment_id,
                                                            [doc |-> assignment])]
                          /\ unit' = AssignmentCall("archive_assignment", assignment_id, TRUE)
    /\ UNCHANGED <<aggregation, cancelled, conversation_history>>

\* AssignmentService.resurrect_assignment
resurrect_assignment ==
    /\ \E assignment_id \in {"A", "B"} :
          IF assignment_id \notin DOMAIN store.archived
          THEN /\ unit' = AssignmentCall("resurrect_assignment", assignment_id, FALSE)
               /\ UNCHANGED store
          ELSE LET file == store.archived[assignment_id]
                   \* line 144: archived_path.rename(active_path)
                   archived == [k \in DOMAIN store.archived \ {assignment_id} |->
                                  store.archived[k]]
               IN IF "unparsable" \in DOMAIN file
                  THEN \* line 148: json.load raises, the except returns False
                       /\ store' = [active |-> DictSet(store.active, assignment_id, file),
                                    archived |-> archived]
                       /\ unit' = AssignmentCall("resurrect_assignment", assignment_id, FALSE)
                  ELSE LET set == DictSet(file.doc, "status", "active")
                           assignment == [k \in DOMAIN set \ {"archived_date"} |-> set[k]]
                       IN /\ store' = [active |-> DictSet(store.active, assignment_id,
                                                          [doc |-> assignment]),
                                       archived |-> archived]
                          /\ unit' = AssignmentCall("resurrect_assignment", assignment_id, TRUE)
    /\ UNCHANGED <<aggregation, cancelled, conversation_history>>

NextAssignments ==
    \/ create_assignment
    \/ update_assignment
    \/ archive_assignment
    \/ resurrect_assignment

SpecAssignments == InitAssignments /\ [][NextAssignments]_vars

\* ------------------------------------------------------ chatbot services
\* most exchanges a user has with a chatbot service
MaxConversations == 3

\* backend ChatbotService._store_conversation, called by process_question
\* once the response is there: one entry per exchange in a list for all users
ChatbotService_store_conversation ==
    /\ Len(conversation_history.backend) < MaxConversations
    /\ \E user_id \in {"default", "ann"} :
          LET conversation_entry == [user_id |-> user_id, question |-> "q", response |-> "a"]
              appended == Append(conversation_history.backend, conversation_entry)
          IN /\ conversation_history' =
                   [conversation_history EXCEPT
                       !.backend = IF Len(appended) > 50 THEN LastN(appended, 50) ELSE appended]
             /\ unit' = Applied("process_question", [user_id |-> user_id], PyNone, <<>>)
    /\ UNCHANGED <<aggregation, cancelled, store>>

\* backend ChatbotService.get_conversation_history on the list history
ChatbotService_get_conversation_history(history, user_id, limit) ==
    LET user_conversations == SelectSeq(history, LAMBDA conv : conv.user_id = user_id) IN
    IF user_conversations # <<>>
    THEN (IF limit = 0 THEN user_conversations ELSE LastN(user_conversations, limit))
    ELSE <<>>

\* a faulty variant: the list is emptied for every user
ChatbotService_clear_everything ==
    /\ \E user_id \in {"default", "ann"} :
          /\ conversation_history' = [conversation_history EXCEPT !.backend = <<>>]
          /\ unit' = Applied("ChatbotService.clear_conversation_history",
                             [user_id |-> user_id, before |-> conversation_history],
                             PyNone, <<>>)
    /\ UNCHANGED <<aggregation, cancelled, store>>

\* backend ChatbotService.clear_conversation_history
ChatbotService_clear_conversation_history ==
    /\ \E user_id \in {"default", "ann"} :
          /\ conversation_history' =
                [conversation_history EXCEPT
                    !.backend = SelectSeq(@, LAMBDA conv : conv.user_id # user_id)]
          /\ unit' = Applied("ChatbotService.clear_conversation_history",
                             [user_id |-> user_id, before |-> conversation_history],
                             PyNone, <<>>)
    /\ UNCHANGED <<aggregation, cancelled, store>>

\* services/chatbot_service.py _process_with_ai, lines 153-167: the question
\* and the response are appended to the list of the user in a dict
process_with_ai ==
    /\ \E user_id \in {"default", "ann"} :
          LET history == DictGet(conversation_history.services, user_id, <<>>) IN
          /\ Len(history) < 2 * MaxConversations
          /\ conversation_history' =
                [conversation_history EXCEPT
                    !.services = DictSet(@, user_id,
                                         history \o <<[role |-> "user", content |-> "q"],
                                                      [role |-> "assistant", content |-> "a"]>>)]
          /\ unit' = Applied("process_question", [user_id |-> user_id], PyNone, <<>>)
    /\ UNCHANGED <<aggregation, cancelled, store>>

\* services/chatbot_service.py get_conversation_history on the dict history
get_conversation_history(history, user_id, limit) ==
    LET of_user == DictGet(history, user_id, <<>>) IN
    IF limit # 0 THEN LastN(of_user, limit) ELSE of_user

\* services/chatbot_service.py clear_conversation_history
clear_conversation_history ==
    /\ \E user_id \in {"default", "ann"} :
          /\ conversation_history' =
                [conversation_history EXCEPT
                    !.services = [k \in DOMAIN @ \ {user_id} |-> @[k]]]
          /\ unit' = Applied("clear_conversation_history",
                             [user_id |-> user_id, before |-> conversation_history],
                             PyNone, <<>>)
    /\ UNCHANGED <<aggregation, cancelled, store>>

NextChatbot ==
    \/ ChatbotService_store_conversation
    \/ ChatbotService_clear_conversation_history
    \/ process_with_ai
    \/ clear_conversation_history

SpecChatbot == InitUnits /\ [][NextChatbot]_vars

\* ------------------------------------------------- the caller goes away
\* backend/main.py get_assignment_metrics: the client of request t closes
\* its connection while asyncio.run(...) is at work; the view takes no
\* notice of it
Cancel(t) ==
    /\ pc[t] \notin {"idle", "done", "raised"}
    /\ cancelled[t] = -1
    /\ cancelled' = [cancelled EXCEPT ![t] = Len(calls[t])]
    /\ UNCHANGED <<aggregation, unit, store, conversation_history>>

NextCancel ==
    \E t \in Requests :
        \/ ConcStep(t)
        \/ Cancel(t)

SpecCancel == InitConc /\ [][NextCancel]_vars

\* --------------------------------------- aggregation, every variable set
\* the aggregations of a process whose environment holds every credential
InitAllSet == Init /\ DOMAIN environ = AlwaysVars \cup OptionalVars

SpecAllSet == InitAllSet /\ [][Next]_vars

\* ------------------------------------------------------------- claims
\* the report a finished aggregation returned to its caller
Returned(t) == pc[t] = "done"

\* metrics_config[s].enabled is false or missing, read off the document
FlagOff(a, s) ==
    \/ "metrics_config" \notin DOMAIN a
    \/ s \notin DOMAIN a.metrics_config
    \/ "enabled" \notin DOMAIN a.metrics_config[s]
    \/ a.metrics_config[s].enabled = FALSE

FlagOn(a, s) == ~FlagOff(a, s)

\* the key that marks the success payload of each service
IsSuccess(s, v) ==
    CASE s = "github" -> "repo_name" \in DOMAIN v /\ ~IsError(v)
      [] s = "jira" -> "resolution_rate" \in DOMAIN v /\ ~IsError(v)
      [] s = "aws" -> "total_cost_last_30_days" \in DOMAIN v /\ ~IsError(v)
      [] OTHER -> "status" \in DOMAIN v /\ v.status = "success"

\* a slot holds success data or an error value (the github slot: a list of them)
SlotFilled(s, v) ==
    IF s = "github"
    THEN \A i \in 1..Len(v) : IsError(v[i]) \/ IsSuccess(s, v[i])
    ELSE IsError(v) \/ IsSuccess(s, v)

\* C1: a report returned by get_all_metrics has no key s for a service s whose
\* enabled flag is false or missing
C1_DisabledAbsent ==
    \A t \in Requests : Returned(t) =>
        \A s \in Services : FlagOff(asg[t], s) => s \notin DOMAIN metrics[t]

\* a report with an enabled service, a service switched off and a service
\* without an entry
C1_Witness ==
    \E t \in Requests :
        /\ Returned(t)
        /\ "metrics_config" \in DOMAIN asg[t]
        /\ "github" \in DOMAIN metrics[t]
        /\ "jira" \in DOMAIN asg[t].metrics_config /\ FlagOff(asg[t], "jira")
        /\ "aws" \notin DOMAIN asg[t].metrics_config
        /\ "aws" \notin DOMAIN metrics[t]

\* C2: a report returned by get_all_metrics holds, for every enabled service,
\* a slot with success data or an error value, whatever the services answered
C2_EnabledPresent ==
    \A t \in Requests : Returned(t) =>
        \A s \in Services : FlagOn(asg[t], s) =>
            s \in DOMAIN metrics[t] /\ SlotFilled(s, metrics[t][s])

\* a report with all four services enabled, one failed and one succeeded
C2_Witness ==
    \E t \in Requests :
        /\ Returned(t)
        /\ \A s \in Services : FlagOn(asg[t], s)
        /\ IsError(metrics[t]["aws"])
        /\ IsSuccess("jira", metrics[t]["jira"])
        /\ Len(metrics[t]["github"]) = MaxRepos

\* C3: no fault in the work for one enabled service reaches the caller of
\* get_all_metrics as an exception
C3_NoExceptionEscapes == \A t \in Requests : pc[t] # "raised"

\* C6: a returned report holds timestamp and assignment_id, and the timestamp
\* was read before any outbound request of that aggregation was issued
C6_TimestampFirst ==
    \A t \in Requests :
        /\ Returned(t) => {"timestamp", "assignment_id"} \subseteq DOMAIN metrics[t]
        /\ \A i \in 1..Len(calls[t]) :
              "timestamp" \in DOMAIN metrics[t] /\ metrics[t].timestamp < calls[t][i].at

\* a report whose four services are enabled and all failed after requests went out
C6_Witness ==
    \E t \in Requests :
        /\ Returned(t)
        /\ \A s \in {"jira", "aws", "railway"} : FlagOn(asg[t], s) /\ IsError(metrics[t][s])
        /\ FlagOn(asg[t], "github")
        /\ Len(metrics[t]["github"]) > 0
        /\ \A i \in 1..Len(metrics[t]["github"]) : IsError(metrics[t]["github"][i])
        /\ Len(calls[t]) > 0

\* C7: with every service switched off or without an entry, the returned
\* report has exactly the keys timestamp and assignment_id
C7_NoServices ==
    \A t \in Requests :
        (Returned(t) /\ \A s \in Services : FlagOff(asg[t], s)) =>
            DOMAIN metrics[t] = {"timestamp", "assignment_id"}

\* reports of an assignment without metrics_config
C7_Witness ==
    \E t \in Requests :
        /\ Returned(t)
        /\ "metrics_config" \notin DOMAIN asg[t]
        /\ metrics[t].assignment_id = "A"

\* the scenario of C8: github enabled with repos = ["r1"], a token, and a 404
\* on the metadata request of r1
C8_Scenario(t) ==
    /\ Returned(t)
    /\ FlagOn(asg[t], "github")
    /\ asg[t].metrics_config["github"].repos = PyList(<<"r1">>)
    /\ Truthy(agg[t].github_token)
    /\ met[t].github = <<[meta |-> Http(404), commits |-> NotCalled, prs |-> NotCalled]>>

\* C8: in that scenario the github slot is one element with repo_name "r1" and
\* an error naming 404, and every disabled service is absent
C8_NotFoundEntry ==
    \A t \in Requests : C8_Scenario(t) =>
        /\ Len(metrics[t]["github"]) = 1
        /\ "repo_name" \in DOMAIN metrics[t]["github"][1]
        /\ metrics[t]["github"][1].repo_name = "r1"
        /\ IsError(metrics[t]["github"][1])
        /\ Contains(metrics[t]["github"][1].error, "404")
        /\ \A s \in Services : FlagOff(asg[t], s) => s \notin DOMAIN metrics[t]

\* C10: an aggregation that has not returned can always take a step
C10_Terminates ==
    \A t \in Requests : pc[t] \in {"idle", "done", "raised"} \/ ENABLED Step(t)

\* the report without its timestamp
WithoutTimestamp(m) == [k \in DOMAIN m \ {"timestamp"} |-> m[k]]

\* C4: of two aggregations of the same assignment, the second started once the
\* first had returned, each with its own MetricsAggregator and both meeting the
\* same responses, the reports are equal in every field but timestamp
C4_Idempotent ==
    \A t, u \in Requests :
        (/\ Returned(t) /\ Returned(u)
         /\ t \in prior[u]
         /\ asg[t] = asg[u]
         /\ met[t] = met[u])
        => WithoutTimestamp(metrics[t]) = WithoutTimestamp(metrics[u])

\* os.environ as it was when the process started: line 804 is the only write
InitialEnviron == [k \in DOMAIN environ \ {"RAILWAY_PROJECT_ID"} |-> environ[k]]

\* the report of request t had its aggregation been the only one of the process
RunAlone(t) ==
    LET self == NewAggregator(InitialEnviron)
        base == NewMetrics(asg[t], metrics[t].timestamp)
        probe == IF met[t].probe = <<>> THEN NotCalled ELSE met[t].probe[1]
        gq == IF met[t].graphql = <<>> THEN NoGraphql ELSE met[t].graphql[1]
    IN IF Enabled(asg[t], "railway")
       THEN DictSet(base, "railway", get_deployment_metrics(self, probe, gq))
       ELSE base

\* C5: of two aggregations in progress at the same time, one of assignment A and
\* one of assignment B, each returns the report it would have returned alone
C5_Isolated ==
    \A t, u \in Requests :
        (/\ Returned(t) /\ Returned(u)
         /\ asg[t].id = "A" /\ asg[u].id = "B"
         /\ t \notin prior[u] /\ u \notin prior[t])
        => metrics[t] = RunAlone(t) /\ metrics[u] = RunAlone(u)

\* C9: the list EmbeddedGitHubMetrics.get_repo_metrics returns as the github
\* slot has one entry per repository of the config, in config order, and each
\* entry depends on its own repository's responses only
C9_OnePerRepo ==
    \A t \in Requests : pc[t] = "returned" =>
        /\ Len(metrics[t].github) = Len(asg[t].repos)
        /\ \A i \in 1..Len(asg[t].repos) :
              metrics[t].github[i] =
                  embedded_repo_entry(agg[t], asg[t].org, asg[t].repos[i], met[t].github[i])

\* the outbound requests of request t to the deployment platform, in order
RailwayRequests(t) == SelectSeq(calls[t], LAMBDA c : c.svc = "railway")

\* C11: with a Railway token the first request is the probe; the GraphQL query
\* is issued only after the probe was answered with a status other than 404;
\* a probe answered 404 gives the fallback payload with attempted_endpoint and
\* next_steps, and no GraphQL query
C11_ProbeFirst ==
    \A t \in Requests :
        LET rc == RailwayRequests(t) IN
        /\ Len(rc) > 0 => rc[1].op = "probe"
        /\ \A i \in 1..Len(rc) : rc[i].op = "graphql" =>
              /\ i > 1
              /\ met[t].probe # <<>>
              /\ met[t].probe[1].kind = "http" /\ met[t].probe[1].status # 404
        /\ (Returned(t) /\ FlagOn(asg[t], "railway") /\ Truthy(agg[t].railway_token))
              => Len(rc) >= 1
        /\ (Returned(t) /\ met[t].probe = <<Http(404)>>) =>
              /\ \A i \in 1..Len(rc) : rc[i].op # "graphql"
              /\ {"attempted_endpoint", "next_steps"} \subseteq DOMAIN metrics[t]["railway"]
              /\ metrics[t]["railway"].status = "api_unavailable"

\* a report after a probe answered 404
C11_Witness ==
    \E t \in Requests :
        /\ Returned(t)
        /\ Truthy(agg[t].railway_token)
        /\ met[t].probe = <<Http(404)>>
        /\ Len(RailwayRequests(t)) = 1
        /\ metrics[t]["railway"].attempted_endpoint = "https://backboard.railway.app/graphql"

\* the calls of the AWS adapters made without a complete key pair in the
\* environment
AwsKeysMissing == ~({"AWS_ACCESS_KEY_ID", "AWS_SECRET_ACCESS_KEY"} \subseteq DOMAIN environ)

\* C12: an AWS adapter constructed without its access key or secret key
\* returns an error value and issues no request
C12_ConfigAbsent ==
    (unit.fn \in {"get_cost_metrics", "get_real_cost_metrics"} /\ AwsKeysMissing)
        => (IsError(unit.ret) /\ unit.requests = <<>>)

\* the requests of aggregation t to service svc with operation op
Issued(t, svc, op) == SelectSeq(calls[t], LAMBDA c : c.svc = svc /\ c.op = op)

\* how often aggregation t issued the request c
Times(t, c) == Cardinality({j \in 1..Len(calls[t]) : calls[t][j] = c})

\* whether aggregation t issued a request with operation op to service svc
Sent(t, svc, op) == \E i \in 1..Len(calls[t]) : calls[t][i].svc = svc /\ calls[t][i].op = op

\* how often repo is listed in the github configuration of a
Listed(a, repo) ==
    LET repos == a.metrics_config.github.repos.items
    IN Cardinality({i \in 1..Len(repos) : repos[i] = repo})

GithubPending(t) ==
    /\ pc[t] = "github"
    /\ FlagOn(asg[t], "github")
    /\ asg[t].metrics_config.github.repos.type = "list"
    /\ Len(github_data[t]) < Len(asg[t].metrics_config.github.repos.items)

\* C14: while the GitHub calls of an aggregation are still outstanding, the
\* call of its enabled Jira adapter can be issued
C14_Concurrent ==
    \A t \in Requests :
        (GithubPending(t) /\ FlagOn(asg[t], "jira")) => ENABLED JiraCall(t)

\* the elements of a sequence
Range(q) == {q[i] : i \in 1..Len(q)}

\* the distance between two integers
Dist(a, b) == IF a > b THEN a - b ELSE b - a

\* C15: for every issue list the resolved count is the number of issues with
\* a resolution date and never exceeds the total; the rate is 0 for an empty
\* list and otherwise the tenth of a percent nearest to resolved / total * 100
\* (15 of 20 gives 75.0), and always lies within 0..100
C15_ResolutionRate ==
    unit.fn = "issue_metrics" =>
        LET total == Len(unit.args)
            resolved == Cardinality({i \in 1..Len(unit.args) : unit.args[i]})
            rate == unit.ret.resolution_rate
        IN /\ unit.ret.total_issues_last_30_days = total
           /\ unit.ret.resolved_issues_last_30_days = resolved
           /\ unit.ret.resolved_issues_last_30_days <= unit.ret.total_issues_last_30_days
           /\ total = 0 => rate = 0
           /\ total > 0 => 2 * Dist(rate * total, 1000 * resolved) <= total
           /\ (total = 20 /\ resolved = 15) => rate = 750
           /\ rate >= 0 /\ rate <= 1000

\* 15 of 20 issues resolved
C15_Witness ==
    /\ unit.fn = "issue_metrics"
    /\ Len(unit.args) = 20
    /\ unit.ret.resolved_issues_last_30_days = 15
    /\ unit.ret.resolution_rate = 750

\* every amount of the series is at least 0
NoCredits(q) == \A i \in 1..Len(q) : q[i] >= 0

\* C16: a series whose most recent 7 days are at 10 and whose 7 days before
\* are at 5 has recent 70, previous 35 and trend "increasing"; the reverse
\* series has trend "decreasing"; and the trend is "decreasing" whenever the
\* two reported sums are equal, which for a series of 14 days or more
\* without negative amounts is whenever the two weeks sum to the same
C16_TrendExamples ==
    unit.fn = "cost_trend" =>
        /\ unit.args = Run(7, 5) \o Run(7, 10) =>
              /\ unit.ret.recent_7_days_cost = 70
              /\ unit.ret.previous_7_days_cost = 35
              /\ unit.ret.weekly_trend = "increasing"
        /\ unit.args = Run(7, 10) \o Run(7, 5) =>
              /\ unit.ret.recent_7_days_cost = 35
              /\ unit.ret.previous_7_days_cost = 70
              /\ unit.ret.weekly_trend = "decreasing"
        /\ unit.ret.recent_7_days_cost = unit.ret.previous_7_days_cost
              => unit.ret.weekly_trend = "decreasing"
        /\ (/\ Len(unit.args) >= 14
            /\ NoCredits(unit.args)
            /\ SumSeq(SubSeq(unit.args, Len(unit.args) - 6, Len(unit.args)))
                  = SumSeq(SubSeq(unit.args, Len(unit.args) - 13, Len(unit.args) - 7)))
              => unit.ret.weekly_trend = "decreasing"

\* two weeks that both sum to 70
C16_Witness ==
    /\ unit.fn = "cost_trend"
    /\ unit.args = Run(7, 10) \o Run(7, 10)
    /\ unit.ret.recent_7_days_cost = 70
    /\ unit.ret.previous_7_days_cost = 70
    /\ unit.ret.weekly_trend = "decreasing"

\* C17: for every daily series, recent is the sum of all amounts of the last
\* 7 days, previous the sum of all amounts of the 7 days before them, and the
\* trend is "increasing" when recent > previous and "decreasing" otherwise
C17_TrendOfSums ==
    unit.fn \in {"cost_trend", "embedded_cost_trend"} =>
        LET recent == SumSeq(LastN(unit.args, 7))
            previous == SumSeq(Previous7(unit.args))
        IN /\ unit.ret.recent_7_days_cost = recent
           /\ unit.ret.previous_7_days_cost = previous
           /\ unit.ret.weekly_trend = IF recent > previous THEN "increasing" ELSE "decreasing"

\* the callouts among the lines of a recommendations list
Callouts(lines) == {lines[i] : i \in {j \in 1..Len(lines) : "callout" \in DOMAIN lines[j]}}

\* the lines of a recommendations list that are not part of a callout
StaticPart(lines) == SelectSeq(lines, LAMBDA l : l \in Range(EmbeddedStaticLines))

\* C18: the recommendations are produced without a fault, hold a callout for
\* a service, with its share to one decimal, exactly when the service's cost
\* is strictly above 30% of a positive total, and their static lines are the
\* same for every input
C18_CalloutAboveThirty ==
    /\ unit.fn = "_get_cost_recommendations" =>
          /\ "value" \in DOMAIN unit.ret
          /\ LET total == unit.args.total_cost
                 costs == unit.args.service_costs
             IN /\ \A i \in 1..Len(costs) :
                      (total > 0 /\ 10 * costs[i].cost > 3 * total)
                         <=> \E c \in Callouts(unit.ret.value) : c.callout = costs[i].name
                /\ \A c \in Callouts(unit.ret.value) : \E i \in 1..Len(costs) :
                      /\ costs[i].name = c.callout
                      /\ 2 * Dist(c.share * total, 1000 * costs[i].cost) <= total
                /\ StaticPart(unit.ret.value) = EmbeddedStaticLines
    /\ (unit.fn = "get_cost_metrics" /\ ~IsError(unit.ret)) =>
          LET total == unit.ret.total_cost_last_30_days
              costs == unit.ret.cto_insights.detailed_service_breakdown
          IN \A i \in 1..Len(costs) :
                (total > 0 /\ 10 * costs[i].cost > 3 * total)
                   <=> \E c \in Callouts(unit.ret.cto_insights.optimization_recommendations) :
                          c.callout = costs[i].name

\* the outcomes of the embedded inventory queries with no failure
AllFound == [k \in {"ec2", "rds", "s3"} |-> "ok"]

\* C19: when inventory queries fail, the AWS result is still a success
\* payload with the same cost fields, every kind whose query failed holds an
\* error marker and every other kind holds what it holds without the failure
C19_InventoryIsolated ==
    /\ (unit.fn = "get_cost_metrics" /\ AwsConfigured(NewAggregator(environ))
          /\ unit.args.ce = "ok") =>
          LET clean == get_cost_metrics(NewAggregator(environ), [unit.args EXCEPT !.failed = {}])
          IN /\ ~IsError(unit.ret)
             /\ unit.ret.total_cost_last_30_days = clean.total_cost_last_30_days
             /\ unit.ret.cto_insights.cost_trend = clean.cto_insights.cost_trend
             /\ \A k \in InventoryKinds :
                   IF k \in unit.args.failed
                   THEN IsError(unit.ret.cto_insights.resource_inventory[k])
                   ELSE unit.ret.cto_insights.resource_inventory[k]
                           = clean.cto_insights.resource_inventory[k]
    /\ unit.fn = "get_real_resource_metrics" =>
          /\ "inventory" \in DOMAIN unit.ret
          /\ \A k \in DOMAIN unit.args :
                IF unit.args[k] # "ok"
                THEN IsError(unit.ret.inventory[k])
                ELSE unit.ret.inventory[k] = get_real_resource_metrics(AllFound).inventory[k]

\* the keys under which the payloads carry metric data
MetricFields ==
    {"repo_name", "commits_last_30_days", "total_prs", "open_issues", "stars", "language",
     "last_updated", "total_issues_last_30_days", "resolved_issues_last_30_days",
     "resolution_rate", "project_name", "total_cost_last_30_days", "top_services",
     "cto_insights", "total_deployments", "successful_deployments", "success_rate",
     "last_deployment", "fallback_data"}

\* a payload with an error key and no metric data
CleanError(v) == IsError(v) /\ DOMAIN v \cap MetricFields = {}

\* C20: in a returned report every payload with an error key carries no
\* metric data, and every payload without one was computed from upstream
\* calls that all answered 200
C20_CleanSlots ==
    \A t \in Requests : Returned(t) =>
        /\ "github" \in DOMAIN metrics[t] =>
              \A i \in 1..Len(metrics[t]["github"]) :
                 LET v == metrics[t]["github"][i] IN
                 IF IsError(v) THEN CleanError(v)
                 ELSE \A c \in {"meta", "commits", "prs"} : met[t].github[i][c] = Http(200)
        /\ "jira" \in DOMAIN metrics[t] =>
              LET v == metrics[t]["jira"] IN
              IF IsError(v) THEN CleanError(v)
              ELSE /\ met[t].jira[1].project = Http(200)
                   /\ met[t].jira[1].search = Http(200)
        /\ "aws" \in DOMAIN metrics[t] =>
              (IsError(metrics[t]["aws"]) => CleanError(metrics[t]["aws"]))
        /\ "railway" \in DOMAIN metrics[t] =>
              (IsError(metrics[t]["railway"]) => CleanError(metrics[t]["railway"]))

\* C21: once the caller of an aggregation has gone away, no further request
\* is issued for that aggregation
C21_Abandoned ==
    \A t \in Requests : cancelled[t] # -1 => Len(calls[t]) = cancelled[t]

\* the cost of service name in the mapping d, a sequence of items
CostIn(d, name) == (CHOOSE e \in Range(d) : e.name = name).cost

\* the names of a mapping
Names(d) == {d[i].name : i \in 1..Len(d)}

\* top is the first min(5, n) items of a ranking of all by descending cost
TopFiveOf(top, all) ==
    /\ Len(top) = (IF Len(all) < 5 THEN Len(all) ELSE 5)
    /\ \A i \in 1..Len(top) : top[i].name \in Names(all) /\ top[i].cost = CostIn(all, top[i].name)
    /\ \A i, j \in 1..Len(top) : i # j => top[i].name # top[j].name
    /\ \A i \in 1..(Len(top) - 1) : top[i].cost >= top[i + 1].cost
    /\ \A e \in Range(all) : e.name \notin Names(top) =>
          \A i \in 1..Len(top) : top[i].cost >= e.cost

\* C22: top_services holds the min(5, n) most expensive services in
\* descending order of cost, each with its cost of the full mapping, and the
\* full mapping of the n services is part of the result
C22_TopServices ==
    /\ (unit.fn = "get_cost_metrics" /\ "answer" \in DOMAIN unit.args /\ ~IsError(unit.ret)) =>
          LET all == unit.ret.cto_insights.detailed_service_breakdown IN
          /\ Names(all) = Names(Flatten(unit.args.answer.periods))
          /\ Len(all) = Cardinality(Names(all))
          /\ TopFiveOf(unit.ret.top_services, all)
    /\ (unit.fn = "get_real_cost_metrics" /\ "days" \in DOMAIN unit.args /\ ~IsError(unit.ret)) =>
          LET all == unit.ret.all_services IN
          /\ all = unit.args.resp.services
          /\ Len(all) = Cardinality(Names(all))
          /\ TopFiveOf(unit.ret.top_services, all)

\* six services with costs in no order: five of them in top_services
C22_Witness ==
    /\ unit.fn = "get_cost_metrics" /\ "answer" \in DOMAIN unit.args /\ ~IsError(unit.ret)
    /\ unit.args.answer.periods = <<Groups(6, "mixed")>>
    /\ Len(unit.ret.top_services) = 5
    /\ unit.ret.top_services[1].cost = 90
    /\ Len(unit.ret.cto_insights.detailed_service_breakdown) = 6

\* C23: daily_average (in hundredths) is the 30-day total divided by 30 in
\* every cost result, whatever the number of daily points of the answer
C23_DailyAverage ==
    /\ (unit.fn = "get_cost_metrics" /\ ~IsError(unit.ret)) =>
          unit.ret.cto_insights.cost_trend.daily_average
             = RoundDiv(unit.ret.total_cost_last_30_days * 100, 30)
    /\ (unit.fn = "get_real_cost_metrics" /\ ~IsError(unit.ret)) =>
          unit.ret.daily_average = RoundDiv(unit.ret.total_cost_last_30_days * 100, 30)

\* C24: daily_costs of a cost result has at most 7 entries, the last 7 of
\* the daily series of the answer in their order
C24_LastSevenDays ==
    /\ (unit.fn = "get_cost_metrics" /\ "answer" \in DOMAIN unit.args /\ ~IsError(unit.ret)) =>
          LET series == unit.args.answer.daily
              shown == unit.ret.cto_insights.cost_trend.daily_costs
          IN /\ Len(shown) = (IF Len(series) < 7 THEN Len(series) ELSE 7)
             /\ \A i \in 1..Len(shown) : shown[i] = series[Len(series) - Len(shown) + i]
    /\ (unit.fn = "get_real_cost_metrics" /\ ~IsError(unit.ret)) =>
          LET series == unit.args.resp.daily
              shown == unit.ret.daily_costs
          IN /\ Len(shown) = (IF Len(series) < 7 THEN Len(series) ELSE 7)
             /\ \A i \in 1..Len(shown) : shown[i] = series[Len(series) - Len(shown) + i]

\* C25: the project id of the GraphQL query variables and of the fallback
\* payload of an aggregation is metrics_config.railway.project_id of the
\* assignment passed to that aggregation, whatever aggregations and
\* constructions came before
C25_ProjectOfAssignment ==
    \A t \in Requests :
        LET project_id == DictGet(ServiceConfig(asg[t], "railway"), "project_id", PyStr("")) IN
        /\ \A i \in 1..Len(calls[t]) :
              calls[t][i].op = "graphql" => calls[t][i].target = PyRepr(project_id)
        /\ (/\ pc[t] = "done"
            /\ "railway" \in DOMAIN metrics[t]
            /\ "project_id" \in DOMAIN metrics[t].railway)
           => metrics[t].railway.project_id = project_id

\* the sum of the costs of a mapping
CostSum(d) == SumSeq([i \in 1..Len(d) |-> d[i].cost])

\* C26: the 30-day total of a cost result is the sum of the per-service costs
\* of its service breakdown, also when the window spans two monthly periods
\* that both list a service
C26_TotalIsSum ==
    /\ (unit.fn = "get_cost_metrics" /\ "answer" \in DOMAIN unit.args /\ ~IsError(unit.ret)) =>
          unit.ret.total_cost_last_30_days
             = CostSum(unit.ret.cto_insights.detailed_service_breakdown)
    /\ (unit.fn = "get_real_cost_metrics" /\ "days" \in DOMAIN unit.args /\ ~IsError(unit.ret)) =>
          unit.ret.total_cost_last_30_days = CostSum(unit.ret.all_services)

\* C27: after any sequence of create, update, archive and resurrect calls no
\* assignment id has a file in the active directory and one in the archived
\* directory
C27_OneStore == DOMAIN store.active \cap DOMAIN store.archived = {}

\* the last call was one of AssignmentService
AssignmentCalled ==
    unit.fn \in {"create_assignment", "update_assignment", "archive_assignment",
                 "resurrect_assignment"}

\* C28: a create, update, archive or resurrect call that returned False left
\* the active and the archived directory as they were
C28_FalseChangesNothing ==
    (AssignmentCalled /\ unit.ret = FALSE) => store = unit.args.before

\* C29: archive_assignment(id) followed by resurrect_assignment(id), both
\* returning True, leaves the active record of id as it was before the
\* archive, status included and without archived_date, and no archived file
\* of id
C29_RoundTrip ==
    (/\ AssignmentCalled
     /\ unit.fn = "resurrect_assignment" /\ unit.ret = TRUE
     /\ unit.args.prev.fn = "archive_assignment" /\ unit.args.prev.ret = TRUE
     /\ unit.args.prev.assignment_id = unit.args.assignment_id)
    => LET id == unit.args.assignment_id IN
       /\ id \in DOMAIN store.active
       /\ store.active[id] = unit.args.prev.before.active[id]
       /\ id \notin DOMAIN store.archived

\* the users of the chatbot services
ChatUsers == {"default", "ann"}

\* C30: after clear_conversation_history(u) the history of u is empty and
\* the stored conversations of every other user are as they were before
C30_ClearOneUser ==
    /\ unit.fn = "ChatbotService.clear_conversation_history" =>
          LET u == unit.args.user_id
              was == unit.args.before.backend
              is == conversation_history.backend
          IN /\ ChatbotService_get_conversation_history(is, u, 10) = <<>>
             /\ \A v \in ChatUsers \ {u} :
                   SelectSeq(is, LAMBDA conv : conv.user_id = v)
                      = SelectSeq(was, LAMBDA conv : conv.user_id = v)
    /\ unit.fn = "clear_conversation_history" =>
          LET u == unit.args.user_id
              was == unit.args.before.services
              is == conversation_history.services
          IN /\ get_conversation_history(is, u, 20) = <<>>
             /\ \A v \in ChatUsers \ {u} :
                   /\ v \in DOMAIN is <=> v \in DOMAIN was
                   /\ v \in DOMAIN was => is[v] = was[v]

\* a user with conversations was cleared in the backend service while the
\* other user had conversations
C30_Witness ==
    /\ unit.fn = "ChatbotService.clear_conversation_history"
    /\ \E u, v \in ChatUsers :
          /\ u = unit.args.user_id /\ v # u
          /\ ChatbotService_get_conversation_history(unit.args.before.backend, u, 10) # <<>>
          /\ ChatbotService_get_conversation_history(conversation_history.backend, v, 10) # <<>>

====
